---- MODULE Spec2Model ----
(***************************************************************************)
(* The hart of the RISC-V emulator: the per-tick driver of src/src/cpu.c   *)
(* (tick_cpu), its interrupt poll, fetch, decode, execute and trap steps,  *)
(* the Sv39 translator and the executors that touch memory or trap state.  *)
(*                                                                         *)
(* Representation of 64-bit words.  A memory word, the program counter and *)
(* an exception value are held as the integer of their two's-complement    *)
(* reading, so (uint64_t) -1 is -1.  A general register and a CSR word are *)
(* held as the set of the positions of their 1 bits, so that               *)
(*    x & m  is  x \cap m,   x | m  is  x \cup m,   x & ~m  is  x \ m,     *)
(*    x << k is  Shl(x, k),  x >> k is  Shr(x, k),  and bit 63 is at hand: *)
(* a register holds every 64-bit value, those past the range of the        *)
(* integers of the model checker included.  ToBits and ToInt convert       *)
(* between the two.                                                        *)
(***************************************************************************)
EXTENDS Integers, Sequences, FiniteSets, TLC

----------------------------------------------------------------------------
(* Bounds of the model *)

\* bytes of boot ROM the bus decodes; a fetch past it is an access fault
RomSize == 8

\* number of 8-byte data words of DRAM the bus decodes
DramWords == 2

----------------------------------------------------------------------------
(* 64-bit words *)

WordBits == 0 .. 63

RECURSIVE NatBits(_, _)
NatBits(n, b) ==
    IF n = 0 THEN {}
    ELSE (IF n % 2 = 1 THEN {b} ELSE {}) \cup NatBits(n \div 2, b + 1)

ToBits(v) == IF v >= 0 THEN NatBits(v, 0) ELSE WordBits \ NatBits(-(v + 1), 0)

RECURSIVE BitsNat(_)
BitsNat(S) ==
    IF S = {} THEN 0
    ELSE LET b == CHOOSE x \in S : TRUE IN 2^b + BitsNat(S \ {b})

ToInt(S) == IF 63 \in S THEN -BitsNat(WordBits \ S) - 1 ELSE BitsNat(S)

Shl(S, k) == {b + k : b \in S} \cap WordBits

Shr(S, k) == {b - k : b \in {x \in S : x >= k}}

\* (int64_t) x >> k, for k < 64: the sign bit fills the top
Sar(S, k) == Shr(S, k) \cup (IF 63 \in S THEN (64 - k) .. 63 ELSE {})

\* a < b of two uint64_t: the highest bit they differ in is in b
Less(a, b) ==
    LET d == (a \ b) \cup (b \ a) IN
    d # {} /\ (CHOOSE x \in d : \A y \in d : y <= x) \in b

\* a < b of two int64_t
SLess(a, b) == IF (63 \in a) # (63 \in b) THEN 63 \in a ELSE Less(a, b)

\* a + b of two uint64_t, modulo 2^64: bit i takes a carry when the bits
\* of b below i exceed the complement of those of a
Add(a, b) ==
    {i \in WordBits :
        ((i \in a) # (i \in b)) # Less((0 .. i - 1) \ a, b \cap (0 .. i - 1))}

\* a - b of two uint64_t, modulo 2^64: bit i takes a borrow when the bits
\* of a below i are less than those of b
Sub(a, b) ==
    {i \in WordBits :
        ((i \in a) # (i \in b)) # Less(a \cap (0 .. i - 1), b \cap (0 .. i - 1))}

\* long division of two uint64_t over the bits hi down to lo of n, r being
\* the remainder of the bits above hi: the quotient bits hi .. lo and the
\* remainder after bit lo.  The range is halved rather than walked bit by
\* bit, which keeps the evaluation shallow.
RECURSIVE UDivBits(_, _, _, _, _)
UDivBits(n, d, hi, lo, r) ==
    IF hi = lo
    THEN LET shifted(r1) ==
                 IF 63 \in r \/ ~Less(r1, d)
                 THEN [q |-> {hi}, r |-> Sub(r1, d)]
                 ELSE [q |-> {}, r |-> r1]
         IN  shifted(Shl(r, 1) \cup (IF hi \in n THEN {0} ELSE {}))
    ELSE LET mid == (hi + lo + 1) \div 2
             join(high, low) == [q |-> high.q \cup low.q, r |-> low.r]
             below(high) == join(high, UDivBits(n, d, mid - 1, lo, high.r))
         IN  below(UDivBits(n, d, hi, mid, r))

\* n / d and n % d of two uint64_t, d # 0
UDiv(n, d) == UDivBits(n, d, 63, 0, {})

\* n / d and n % d of two int64_t, d # 0 and not the overflow: the quotient
\* is truncated toward 0 and the remainder has the sign of n
SDiv(n, d) ==
    LET signed(m) ==
            [q |-> IF (63 \in n) # (63 \in d) THEN Sub({}, m.q) ELSE m.q,
             r |-> IF 63 \in n THEN Sub({}, m.r) ELSE m.r]
    IN  signed(UDiv(IF 63 \in n THEN Sub({}, n) ELSE n,
                    IF 63 \in d THEN Sub({}, d) ELSE d))

\* (x >> shift) & (2^width - 1) of a word held as an integer
Field(v, shift, width) == BitsNat(Shr(ToBits(v), shift) \cap (0 .. width - 1))

\* x & ~m of a word held as an integer
ClearBits(v, m) == ToInt(ToBits(v) \ m)

----------------------------------------------------------------------------
(* Privilege modes, exception and interrupt numbers *)

\* the privilege modes
riscv_mode == [
    USER |-> 0,
    SUPERVISOR |-> 1,
    MACHINE |-> 3 ]

USER == riscv_mode.USER
SUPERVISOR == riscv_mode.SUPERVISOR
MACHINE == riscv_mode.MACHINE

\* the exception numbers, with the value of an empty exception slot
riscv_exception == [
    InstructionAddressMisaligned |-> 0,
    InstructionAccessFault |-> 1,
    IllegalInstruction |-> 2,
    Breakpoint |-> 3,
    LoadAddressMisaligned |-> 4,
    LoadAccessFault |-> 5,
    StoreAMOAddressMisaligned |-> 6,
    StoreAMOAccessFault |-> 7,
    EnvironmentCallFromUMode |-> 8,
    EnvironmentCallFromSMode |-> 9,
    EnvironmentCallFromMMode |-> 11,
    InstructionPageFault |-> 12,
    LoadPageFault |-> 13,
    StoreAMOPageFault |-> 15,
    NoException |-> 99 ]

InstructionAddressMisaligned == riscv_exception.InstructionAddressMisaligned
InstructionAccessFault == riscv_exception.InstructionAccessFault
IllegalInstruction == riscv_exception.IllegalInstruction
Breakpoint == riscv_exception.Breakpoint
LoadAddressMisaligned == riscv_exception.LoadAddressMisaligned
LoadAccessFault == riscv_exception.LoadAccessFault
StoreAMOAddressMisaligned == riscv_exception.StoreAMOAddressMisaligned
StoreAMOAccessFault == riscv_exception.StoreAMOAccessFault
EnvironmentCallFromUMode == riscv_exception.EnvironmentCallFromUMode
EnvironmentCallFromSMode == riscv_exception.EnvironmentCallFromSMode
EnvironmentCallFromMMode == riscv_exception.EnvironmentCallFromMMode
InstructionPageFault == riscv_exception.InstructionPageFault
LoadPageFault == riscv_exception.LoadPageFault
StoreAMOPageFault == riscv_exception.StoreAMOPageFault
NoException == riscv_exception.NoException

SupervisorSoftwareInterrupt == 1
MachineSoftwareInterrupt == 3
SupervisorTimerInterrupt == 5
MachineTimerInterrupt == 7
SupervisorExternalInterrupt == 9
MachineExternalInterrupt == 11
NoInterrupt == 99

----------------------------------------------------------------------------
(* CSR file *)

\* the CSR numbers
csr_index == [
    SSTATUS |-> 256,
    SEDELEG |-> 258,
    SIDELEG |-> 259,
    SIE |-> 260,
    STVEC |-> 261,
    SEPC |-> 321,
    SCAUSE |-> 322,
    STVAL |-> 323,
    SIP |-> 324,
    SATP |-> 384,
    MSTATUS |-> 768,
    MEDELEG |-> 770,
    MIDELEG |-> 771,
    MIE |-> 772,
    MTVEC |-> 773,
    MEPC |-> 833,
    MCAUSE |-> 834,
    MTVAL |-> 835,
    MIP |-> 836,
    INSTRET |-> 3074 ]

SSTATUS == csr_index.SSTATUS
SEDELEG == csr_index.SEDELEG
SIDELEG == csr_index.SIDELEG
SIE == csr_index.SIE
STVEC == csr_index.STVEC
SEPC == csr_index.SEPC
SCAUSE == csr_index.SCAUSE
STVAL == csr_index.STVAL
SIP == csr_index.SIP
SATP == csr_index.SATP
MSTATUS == csr_index.MSTATUS
MEDELEG == csr_index.MEDELEG
MIDELEG == csr_index.MIDELEG
MIE == csr_index.MIE
MTVEC == csr_index.MTVEC
MEPC == csr_index.MEPC
MCAUSE == csr_index.MCAUSE
MTVAL == csr_index.MTVAL
MIP == csr_index.MIP
INSTRET == csr_index.INSTRET

\* the registers that have storage of their own
CsrRegs == {SEDELEG, SIDELEG, STVEC, SEPC, SCAUSE, STVAL, SATP, MSTATUS,
            MEDELEG, MIDELEG, MIE, MTVEC, MEPC, MCAUSE, MTVAL, MIP, INSTRET}

\* the fields of mstatus, sstatus, satp and mip, each the set of its bits
csr_field == [
    MSTATUS_MIE |-> {3},
    MSTATUS_MPIE |-> {7},
    MSTATUS_MPP |-> {11, 12},
    MSTATUS_MPRV |-> {17},
    SSTATUS_SIE |-> {1},
    SSTATUS_SPIE |-> {5},
    SSTATUS_SPP |-> {8},
    SATP_PPN |-> 0 .. 43,
    MIP_SSIP |-> {1},
    MIP_MSIP |-> {3},
    MIP_STIP |-> {5},
    MIP_MTIP |-> {7},
    MIP_SEIP |-> {9},
    MIP_MEIP |-> {11} ]

MSTATUS_MIE == csr_field.MSTATUS_MIE
MSTATUS_MPIE == csr_field.MSTATUS_MPIE
MSTATUS_MPP == csr_field.MSTATUS_MPP
MSTATUS_MPRV == csr_field.MSTATUS_MPRV
SSTATUS_SIE == csr_field.SSTATUS_SIE
SSTATUS_SPIE == csr_field.SSTATUS_SPIE
SSTATUS_SPP == csr_field.SSTATUS_SPP
SATP_PPN == csr_field.SATP_PPN

MIP_SSIP == csr_field.MIP_SSIP
MIP_MSIP == csr_field.MIP_MSIP
MIP_STIP == csr_field.MIP_STIP
MIP_MTIP == csr_field.MIP_MTIP
MIP_SEIP == csr_field.MIP_SEIP
MIP_MEIP == csr_field.MIP_MEIP

\* the fields of mstatus that sstatus shows: SIE, SPIE, UBE, SPP, FS, XS,
\* SUM, MXR, UXL, SD
SSTATUS_MASK == {1, 5, 6, 8, 13, 14, 15, 16, 18, 19, 32, 33, 63}

\* the fields of mie and mip that sie and sip show: SSI, STI, SEI
SIP_MASK == {1, 5, 9}

read_csr(c, addr) ==
    CASE addr = SSTATUS -> c[MSTATUS] \cap SSTATUS_MASK
      [] addr = SIE -> c[MIE] \cap SIP_MASK
      [] addr = SIP -> c[MIP] \cap SIP_MASK
      [] OTHER -> c[addr]

write_csr(c, addr, value) ==
    CASE addr = SSTATUS ->
            [c EXCEPT ![MSTATUS] = (@ \ SSTATUS_MASK) \cup (value \cap SSTATUS_MASK)]
      [] addr = SIE ->
            [c EXCEPT ![MIE] = (@ \ SIP_MASK) \cup (value \cap SIP_MASK)]
      [] addr = SIP ->
            [c EXCEPT ![MIP] = (@ \ SIP_MASK) \cup (value \cap SIP_MASK)]
      [] OTHER -> [c EXCEPT ![addr] = value]

set_csr_bits(c, addr, mask) == write_csr(c, addr, read_csr(c, addr) \cup mask)

clear_csr_bits(c, addr, mask) == write_csr(c, addr, read_csr(c, addr) \ mask)

check_csr_bit(c, addr, mask) == (read_csr(c, addr) \cap mask) # {}

init_csr == [a \in CsrRegs |-> {}]

----------------------------------------------------------------------------
(* Bus: boot ROM and DRAM *)

BOOT_ROM_BASE == 4096
DRAM_BASE == 8192
PAGE_SHIFT == 12
LEVELS == 3

Access_Instr == "Access_Instr"
Access_Load == "Access_Load"
Access_Store == "Access_Store"

InRom(addr) == addr >= BOOT_ROM_BASE /\ addr < BOOT_ROM_BASE + RomSize

\* the DRAM words a program reads and writes
DataAddrs == {DRAM_BASE + 8 * k : k \in 0 .. DramWords - 1}

\* read_bus(bus, addr, size, &exc): the low size bits of the word at addr,
\* zero-extended, as a bit set; off the map, an access fault and -1
read_bus(m, e, addr, size) ==
    IF addr \in DOMAIN m
    THEN [value |-> ToBits(m[addr]) \cap (0 .. size - 1), exc |-> e]
    ELSE [value |-> ToBits(-1), exc |-> [e EXCEPT !.exception = LoadAccessFault]]

\* write_bus(bus, addr, size, value, &exc): replaces the low size bits
write_bus(m, e, addr, size, value) ==
    IF addr \in DOMAIN m
    THEN [ok |-> TRUE, exc |-> e,
          mem |-> [m EXCEPT ![addr] =
                     ToInt((ToBits(@) \ (0 .. size - 1))
                           \cup (ToBits(value) \cap (0 .. size - 1)))]]
    ELSE [ok |-> FALSE, mem |-> m,
          exc |-> [e EXCEPT !.exception = StoreAMOAccessFault]]

----------------------------------------------------------------------------
(* MMU: Sv39 *)

sv39_pte_new(w) ==
    [v |-> IF 0 \in w THEN 1 ELSE 0,
     r |-> IF 1 \in w THEN 1 ELSE 0,
     w |-> IF 2 \in w THEN 1 ELSE 0,
     x |-> IF 3 \in w THEN 1 ELSE 0,
     ppn |-> BitsNat(Shr(w, 10) \cap (0 .. 43))]

NoPte == sv39_pte_new({})

\* the loop of addr_translate (steps 2 to 4): "leaf" with the PTE and its
\* level, "fail" for a page fault, "bus" when the PTE read faults
RECURSIVE sv39_walk(_, _, _, _, _)
sv39_walk(m, e, vpn, a, i) ==
    LET step(rd, pte) ==
            IF rd.exc.exception # NoException
            THEN [res |-> "bus", pte |-> NoPte, i |-> i, exc |-> rd.exc]
            ELSE IF pte.v = 0 \/ (pte.r = 0 /\ pte.w = 1)
            THEN [res |-> "fail", pte |-> pte, i |-> i, exc |-> e]
            ELSE IF pte.r = 1 \/ pte.x = 1
            THEN [res |-> "leaf", pte |-> pte, i |-> i, exc |-> e]
            ELSE IF i - 1 < 0
            THEN [res |-> "fail", pte |-> pte, i |-> i - 1, exc |-> e]
            ELSE sv39_walk(m, e, vpn, pte.ppn * 2^PAGE_SHIFT, i - 1)
        read(rd) == step(rd, sv39_pte_new(rd.value))
    IN  read(read_bus(m, e, a + vpn[i] * 8, 64))

translate_fail(e, addr, access) ==
    [addr |-> -1,
     exc |-> [exception |->
                 CASE access = Access_Instr -> InstructionPageFault
                   [] access = Access_Load -> LoadPageFault
                   [] access = Access_Store -> StoreAMOPageFault,
              value |-> addr]]

\* step 5: the leaf allows the access
leaf_permits(pte, access) ==
    CASE access = Access_Instr -> pte.x # 0
      [] access = Access_Load -> pte.r # 0
      [] access = Access_Store -> pte.w # 0

\* step 6: for (idx = i - 1; idx > 0; idx--) if (ppn[idx] != 0) fail
superpage_misaligned(ppn, i) ==
    i > 0 /\ \E idx \in 1 .. i - 1 : ppn[idx] # 0

\* step 8 without the replacement of the low chunks
superpage_keeps_ppn(vpn, ppn, i) == ppn

\* step 8: while (i > 0) { ppn[fix] = vpn[fix]; fix++; i--; }
superpage_fix(vpn, ppn, i) ==
    [k \in 0 .. 2 |-> IF k < i THEN vpn[k] ELSE ppn[k]]

addr_translate(c, md, m, e, addr, access) ==
    LET \* steps 5 to 8, with the leaf pte found at level i
        assemble(pa) ==
            [addr |-> pa[2] * 2^30 + pa[1] * 2^21 + pa[0] * 2^12
                      + Field(addr, 0, 12),
             exc |-> e]
        leaf(vpn, pte, i, ppn) ==
            IF ~leaf_permits(pte, access) THEN translate_fail(e, addr, access)
            ELSE IF superpage_misaligned(ppn, i) THEN translate_fail(e, addr, access)
            ELSE assemble(superpage_fix(vpn, ppn, i))
        walked(vpn, wk) ==
            IF wk.res = "bus" THEN [addr |-> -1, exc |-> wk.exc]
            ELSE IF wk.res = "fail" THEN translate_fail(e, addr, access)
            ELSE leaf(vpn, wk.pte, wk.i,
                      [k \in 0 .. 2 |->
                          IF k = 2 THEN wk.pte.ppn \div 2^18
                          ELSE (wk.pte.ppn \div 2^(9 * k)) % 512])
        walk(satp, vpn) ==
            walked(vpn, sv39_walk(m, e, vpn,
                                  BitsNat(satp \cap SATP_PPN) * 2^PAGE_SHIFT,
                                  LEVELS - 1))
        translate(satp) ==
            IF Shr(satp, 60) # ToBits(8)
            THEN [addr |-> addr, exc |-> e]
            ELSE IF md = MACHINE
                    /\ (\/ access = Access_Instr
                        \/ ~check_csr_bit(c, MSTATUS, MSTATUS_MPRV)
                        \/ Shr(read_csr(c, MSTATUS), 11) = ToBits(MACHINE))
            THEN [addr |-> addr, exc |-> e]
            ELSE walk(satp, [k \in 0 .. 2 |-> Field(addr, PAGE_SHIFT + 9 * k, 9)])
    IN  translate(read_csr(c, SATP))

----------------------------------------------------------------------------
(* The hart *)

VARIABLES
    cpu,         \* riscv_cpu: xreg, pc, mode, exc, irq, reservation, instr,
                 \* csr, bus (the DRAM words)
    stage,       \* where tick_cpu stands: "bus", "irq", "fetch", "decode",
                 \* "exec", "trap"; "halted" after a fatal trap, "exited"
                 \* after exit(1)
    instr_addr,  \* tick_cpu's local: the pc sampled after the interrupt poll
    took,        \* the cause irq_enable accepted in this tick's poll, or
                 \* NoInterrupt
    lr_state,    \* the history of the reservation: "lr" after an LR that
                 \* recorded it, "lr_trap" once a trap was entered after that
                 \* LR, "none" before any LR and after an SC that returned
    image,       \* the instruction words the loaded firmware is made of
    lines        \* the mip bits the devices on the bus can raise

vars == <<cpu, stage, instr_addr, took, lr_state, image, lines>>

\* read_cpu / write_cpu: translate, then go to the bus
read_cpu(c, addr, size) ==
    LET read(t) ==
            IF t.exc.exception # NoException
            THEN [value |-> ToBits(-1), exc |-> t.exc]
            ELSE read_bus(c.bus, t.exc, t.addr, size)
    IN  read(addr_translate(c.csr, c.mode, c.bus, c.exc, addr, Access_Load))

write_cpu(c, addr, size, value) ==
    LET write(t) ==
            IF t.exc.exception # NoException
            THEN [ok |-> FALSE, mem |-> c.bus, exc |-> t.exc]
            ELSE write_bus(c.bus, t.exc, t.addr, size, value)
    IN  write(addr_translate(c.csr, c.mode, c.bus, c.exc, addr, Access_Store))

\* (intN_t) of a value read from the bus
SignExtend(w, size) ==
    ToInt(IF size - 1 \in w THEN w \cup (size .. 63) ELSE w \cap (0 .. size - 1))

----------------------------------------------------------------------------
(* Executors *)

\* load_to without the early return: rd takes the value of the failed read
load_to_no_return(c, addr, size, signed, rd) ==
    LET loaded(r) ==
            [c EXCEPT !.exc = r.exc,
                      !.xreg[rd] = IF signed THEN ToBits(SignExtend(r.value, size))
                                   ELSE r.value]
    IN  loaded(read_cpu(c, addr, size))

\* the body shared by the load executors: read size bits at addr and, when
\* nothing was raised, put conv(value) in rd
load_to(c, addr, size, signed, rd) ==
    LET loaded(r) ==
            IF r.exc.exception # NoException
            THEN [c EXCEPT !.exc = r.exc]
            ELSE [c EXCEPT !.exc = r.exc,
                           !.xreg[rd] = IF signed THEN ToBits(SignExtend(r.value, size))
                                        ELSE r.value]
    IN  loaded(read_cpu(c, addr, size))

instr_lb(c) == load_to(c, ToInt(c.xreg[c.instr.rs1]) + c.instr.imm, 8, TRUE, c.instr.rd)

instr_lh(c) == load_to(c, ToInt(c.xreg[c.instr.rs1]) + c.instr.imm, 16, TRUE, c.instr.rd)

instr_lw(c) == load_to(c, ToInt(c.xreg[c.instr.rs1]) + c.instr.imm, 32, TRUE, c.instr.rd)

instr_ld(c) == load_to(c, ToInt(c.xreg[c.instr.rs1]) + c.instr.imm, 64, FALSE, c.instr.rd)

instr_lbu(c) == load_to(c, ToInt(c.xreg[c.instr.rs1]) + c.instr.imm, 8, FALSE, c.instr.rd)

instr_lhu(c) == load_to(c, ToInt(c.xreg[c.instr.rs1]) + c.instr.imm, 16, FALSE, c.instr.rd)

instr_lwu(c) == load_to(c, ToInt(c.xreg[c.instr.rs1]) + c.instr.imm, 32, FALSE, c.instr.rd)

\* the compressed loads take their offset from the instruction bits; the
\* word of the model carries it in imm
instr_clw(c) == load_to(c, ToInt(c.xreg[c.instr.rs1]) + c.instr.imm, 32, TRUE, c.instr.rd)

instr_cld(c) == load_to(c, ToInt(c.xreg[c.instr.rs1]) + c.instr.imm, 64, FALSE, c.instr.rd)

instr_clwsp(c) ==
    LET loaded(r) ==
            IF r.exc.exception # NoException
            THEN [c EXCEPT !.exc = r.exc]
            ELSE IF c.instr.rd # 0
            THEN [c EXCEPT !.exc = r.exc,
                           !.xreg[c.instr.rd] = ToBits(SignExtend(r.value, 32))]
            ELSE [c EXCEPT !.exc = r.exc]
    IN  loaded(read_cpu(c, ToInt(c.xreg[2]) + c.instr.imm, 32))

instr_cldsp(c) ==
    LET loaded(r) ==
            IF r.exc.exception # NoException
            THEN [c EXCEPT !.exc = r.exc]
            ELSE IF c.instr.rd # 0
            THEN [c EXCEPT !.exc = r.exc, !.xreg[c.instr.rd] = r.value]
            ELSE [c EXCEPT !.exc = r.exc]
    IN  loaded(read_cpu(c, ToInt(c.xreg[2]) + c.instr.imm, 64))

\* nzuimm, which the executor takes from the bits of the word, is the imm
\* of the model's word; rd is 8 + rd'
instr_caddi4spn(c) ==
    IF c.instr.imm # 0
    THEN [c EXCEPT !.xreg[c.instr.rd] = ToBits(ToInt(c.xreg[2]) + c.instr.imm)]
    ELSE c

\* C.JR when rs2 = 0, else C.MV
instr_cjr_cmv(c) ==
    IF c.instr.rs2 = 0
    THEN IF c.instr.rs1 # 0
         THEN [c EXCEPT !.pc = ToInt(c.xreg[c.instr.rs1])]
         ELSE [c EXCEPT !.exc.exception = IllegalInstruction]
    ELSE [c EXCEPT !.xreg[c.instr.rd] = c.xreg[c.instr.rs2]]

\* C.EBREAK when rs2 = 0 and rs1 = 0, C.JALR when rs2 = 0, else C.ADD
instr_cebreak_cjalr_cadd(c) ==
    IF c.instr.rs2 = 0
    THEN IF c.instr.rs1 = 0
         THEN [c EXCEPT !.exc.exception = Breakpoint]
         ELSE LET prev_pc == c.pc IN
              [[c EXCEPT !.pc = ToInt(c.xreg[c.instr.rs1])]
                  EXCEPT !.xreg[1] = ToBits(prev_pc)]
    ELSE [c EXCEPT !.xreg[c.instr.rd] = Add(c.xreg[c.instr.rd], c.xreg[c.instr.rs2])]

\* the body shared by the store executors
store_from(c, addr, size, value) ==
    LET stored(w) == [c EXCEPT !.exc = w.exc, !.bus = w.mem]
    IN  stored(write_cpu(c, addr, size, value))

instr_sw(c) == store_from(c, ToInt(c.xreg[c.instr.rs1]) + c.instr.imm, 32, ToInt(c.xreg[c.instr.rs2]))

instr_sd(c) == store_from(c, ToInt(c.xreg[c.instr.rs1]) + c.instr.imm, 64, ToInt(c.xreg[c.instr.rs2]))

\* what a build makes of x << n with n >= 64, which C leaves undefined: the
\* count taken modulo 64, as the shift instruction of the usual hosts does,
\* or every bit shifted out
UndefinedShift == {"modulo", "all_out"}

\* shamt = count & 0x3f, or & 0x1f
shamt(count, mask) == BitsNat(count \cap mask)

\* (int32_t) of a 32-bit value, widened to the register
int32_t(w) == IF 31 \in w THEN w \cup (32 .. 63) ELSE w \cap (0 .. 31)

\* (uint32_t) of a register
uint32_t(w) == w \cap (0 .. 31)

\* the count is the whole of rs2
instr_sll(c, u) ==
    LET n == c.xreg[c.instr.rs2] IN
    [c EXCEPT !.xreg[c.instr.rd] =
        IF n \cap (6 .. 63) = {} THEN Shl(c.xreg[c.instr.rs1], BitsNat(n))
        ELSE IF u = "modulo" THEN Shl(c.xreg[c.instr.rs1], shamt(n, 0 .. 5))
        ELSE {}]

instr_srl(c) ==
    [c EXCEPT !.xreg[c.instr.rd] =
        Shr(c.xreg[c.instr.rs1], shamt(c.xreg[c.instr.rs2], 0 .. 5))]

instr_sra(c) ==
    [c EXCEPT !.xreg[c.instr.rd] =
        Sar(c.xreg[c.instr.rs1], shamt(c.xreg[c.instr.rs2], 0 .. 5))]

instr_slli(c) ==
    [c EXCEPT !.xreg[c.instr.rd] =
        Shl(c.xreg[c.instr.rs1], shamt(ToBits(c.instr.imm), 0 .. 5))]

instr_srli(c) ==
    [c EXCEPT !.xreg[c.instr.rd] =
        Shr(c.xreg[c.instr.rs1], shamt(ToBits(c.instr.imm), 0 .. 5))]

instr_srai(c) ==
    [c EXCEPT !.xreg[c.instr.rd] =
        Sar(c.xreg[c.instr.rs1], shamt(ToBits(c.instr.imm), 0 .. 5))]

instr_sllw(c) ==
    [c EXCEPT !.xreg[c.instr.rd] =
        int32_t(uint32_t(Shl(uint32_t(c.xreg[c.instr.rs1]),
                             shamt(c.xreg[c.instr.rs2], 0 .. 4))))]

instr_srlw(c) ==
    [c EXCEPT !.xreg[c.instr.rd] =
        int32_t(Shr(uint32_t(c.xreg[c.instr.rs1]),
                    shamt(c.xreg[c.instr.rs2], 0 .. 4)))]

\* the shift is of the int32_t value, and arithmetic
instr_sraw(c) ==
    [c EXCEPT !.xreg[c.instr.rd] =
        Sar(int32_t(uint32_t(c.xreg[c.instr.rs1])),
            shamt(c.xreg[c.instr.rs2], 0 .. 4))]

instr_slliw(c) ==
    [c EXCEPT !.xreg[c.instr.rd] =
        int32_t(uint32_t(Shl(uint32_t(c.xreg[c.instr.rs1]),
                             shamt(ToBits(c.instr.imm), 0 .. 4))))]

instr_srliw(c) ==
    [c EXCEPT !.xreg[c.instr.rd] =
        int32_t(Shr(uint32_t(c.xreg[c.instr.rs1]),
                    shamt(ToBits(c.instr.imm), 0 .. 4)))]

instr_sraiw(c) ==
    [c EXCEPT !.xreg[c.instr.rd] =
        Sar(int32_t(uint32_t(c.xreg[c.instr.rs1])),
            shamt(ToBits(c.instr.imm), 0 .. 4))]

\* INT64_MIN and INT32_MIN, as the registers hold them
INT64_MIN == {63}
INT32_MIN == 31 .. 63

instr_div(c) ==
    LET dividend == c.xreg[c.instr.rs1]
        divisor == c.xreg[c.instr.rs2]
    IN  [c EXCEPT !.xreg[c.instr.rd] =
            IF divisor = {} THEN WordBits
            ELSE IF dividend = INT64_MIN /\ divisor = WordBits THEN dividend
            ELSE SDiv(dividend, divisor).q]

instr_divu(c) ==
    LET dividend == c.xreg[c.instr.rs1]
        divisor == c.xreg[c.instr.rs2]
    IN  [c EXCEPT !.xreg[c.instr.rd] =
            IF divisor = {} THEN WordBits
            ELSE UDiv(dividend, divisor).q]

instr_rem(c) ==
    LET dividend == c.xreg[c.instr.rs1]
        divisor == c.xreg[c.instr.rs2]
    IN  [c EXCEPT !.xreg[c.instr.rd] =
            IF divisor = {} THEN dividend
            ELSE IF dividend = INT64_MIN /\ divisor = WordBits THEN {}
            ELSE SDiv(dividend, divisor).r]

instr_remu(c) ==
    LET dividend == c.xreg[c.instr.rs1]
        divisor == c.xreg[c.instr.rs2]
    IN  [c EXCEPT !.xreg[c.instr.rd] =
            IF divisor = {} THEN dividend
            ELSE UDiv(dividend, divisor).r]

\* the operands are the low 32 bits, as int32_t
instr_divw(c) ==
    LET dividend == int32_t(uint32_t(c.xreg[c.instr.rs1]))
        divisor == int32_t(uint32_t(c.xreg[c.instr.rs2]))
    IN  [c EXCEPT !.xreg[c.instr.rd] =
            IF divisor = {} THEN WordBits
            ELSE IF dividend = INT32_MIN /\ divisor = WordBits THEN dividend
            ELSE int32_t(SDiv(dividend, divisor).q)]

\* the operands are the low 32 bits, as uint32_t
instr_divuw(c) ==
    LET dividend == uint32_t(c.xreg[c.instr.rs1])
        divisor == uint32_t(c.xreg[c.instr.rs2])
    IN  [c EXCEPT !.xreg[c.instr.rd] =
            IF divisor = {} THEN WordBits
            ELSE int32_t(UDiv(dividend, divisor).q)]

instr_remw(c) ==
    LET dividend == int32_t(uint32_t(c.xreg[c.instr.rs1]))
        divisor == int32_t(uint32_t(c.xreg[c.instr.rs2]))
    IN  [c EXCEPT !.xreg[c.instr.rd] =
            IF divisor = {} THEN dividend
            ELSE IF dividend = INT32_MIN /\ divisor = WordBits THEN {}
            ELSE int32_t(SDiv(dividend, divisor).r)]

\* instr_remuw without the (int32_t) of the dividend it returns for a
\* divisor of 0
instr_remuw_zero_extends(c) ==
    LET dividend == uint32_t(c.xreg[c.instr.rs1])
        divisor == uint32_t(c.xreg[c.instr.rs2])
    IN  [c EXCEPT !.xreg[c.instr.rd] =
            IF divisor = {} THEN dividend
            ELSE int32_t(UDiv(dividend, divisor).r)]

instr_remuw(c) ==
    LET dividend == uint32_t(c.xreg[c.instr.rs1])
        divisor == uint32_t(c.xreg[c.instr.rs2])
    IN  [c EXCEPT !.xreg[c.instr.rd] =
            IF divisor = {} THEN int32_t(dividend)
            ELSE int32_t(UDiv(dividend, divisor).r)]

instr_beq(c) ==
    IF c.xreg[c.instr.rs1] = c.xreg[c.instr.rs2]
    THEN [c EXCEPT !.pc = c.pc + c.instr.imm - 4] ELSE c

instr_bne(c) ==
    IF c.xreg[c.instr.rs1] # c.xreg[c.instr.rs2]
    THEN [c EXCEPT !.pc = c.pc + c.instr.imm - 4] ELSE c

\* instr_jalr that writes the link register before it reads rs1
instr_jalr_links_first(c) ==
    LET linked == [c EXCEPT !.xreg[c.instr.rd] = ToBits(c.pc)] IN
    [linked EXCEPT !.pc = ClearBits(ToInt(linked.xreg[c.instr.rs1]) + c.instr.imm, {0})]

\* instr_blt without the (int64_t) casts
instr_blt_unsigned(c) ==
    IF Less(c.xreg[c.instr.rs1], c.xreg[c.instr.rs2])
    THEN [c EXCEPT !.pc = c.pc + c.instr.imm - 4] ELSE c

instr_blt(c) ==
    IF SLess(c.xreg[c.instr.rs1], c.xreg[c.instr.rs2])
    THEN [c EXCEPT !.pc = c.pc + c.instr.imm - 4] ELSE c

instr_bge(c) ==
    IF ~SLess(c.xreg[c.instr.rs1], c.xreg[c.instr.rs2])
    THEN [c EXCEPT !.pc = c.pc + c.instr.imm - 4] ELSE c

instr_bltu(c) ==
    IF Less(c.xreg[c.instr.rs1], c.xreg[c.instr.rs2])
    THEN [c EXCEPT !.pc = c.pc + c.instr.imm - 4] ELSE c

instr_bgeu(c) ==
    IF ~Less(c.xreg[c.instr.rs1], c.xreg[c.instr.rs2])
    THEN [c EXCEPT !.pc = c.pc + c.instr.imm - 4] ELSE c

\* the offset C.BEQZ and C.BNEZ take from the bits of the halfword,
\* imm[8|4:3|7:6|2:1|5] = inst[12|11:10|6:5|4:3|2], sign-extended from bit 8
cb_imm(instr) ==
    LET imm == (Shr(instr, 4) \cap {8}) \cup (Shl(instr, 1) \cap {6, 7})
               \cup (Shl(instr, 3) \cap {5}) \cup (Shr(instr, 7) \cap {3, 4})
               \cup (Shr(instr, 2) \cap {1, 2})
    IN  ToInt(IF 8 \in imm THEN imm \cup (9 .. 63) ELSE imm)

\* the halfword is the imm of the model's word; rs1 is 8 + rs1'
instr_cbeqz(c) ==
    IF c.xreg[c.instr.rs1] = {}
    THEN [c EXCEPT !.pc = c.pc + cb_imm(ToBits(c.instr.instr.imm)) - 2] ELSE c

instr_cbnez(c) ==
    IF c.xreg[c.instr.rs1] # {}
    THEN [c EXCEPT !.pc = c.pc + cb_imm(ToBits(c.instr.instr.imm)) - 2] ELSE c

instr_add(c) ==
    [c EXCEPT !.xreg[c.instr.rd] = Add(c.xreg[c.instr.rs1], c.xreg[c.instr.rs2])]

\* instr_sub with the operands exchanged
instr_sub_reversed(c) ==
    [c EXCEPT !.xreg[c.instr.rd] = Sub(c.xreg[c.instr.rs2], c.xreg[c.instr.rs1])]

instr_sub(c) ==
    [c EXCEPT !.xreg[c.instr.rd] = Sub(c.xreg[c.instr.rs1], c.xreg[c.instr.rs2])]

instr_xor(c) ==
    [c EXCEPT !.xreg[c.instr.rd] =
        (c.xreg[c.instr.rs1] \ c.xreg[c.instr.rs2])
        \cup (c.xreg[c.instr.rs2] \ c.xreg[c.instr.rs1])]

instr_addi(c) ==
    [c EXCEPT !.xreg[c.instr.rd] = ToBits(ToInt(c.xreg[c.instr.rs1]) + c.instr.imm)]

instr_jalr(c) ==
    LET prev_pc == c.pc IN
    [c EXCEPT !.pc = ClearBits(ToInt(c.xreg[c.instr.rs1]) + c.instr.imm, {0}),
              !.xreg[c.instr.rd] = ToBits(prev_pc)]

instr_jal(c) ==
    [c EXCEPT !.xreg[c.instr.rd] = ToBits(c.pc),
              !.pc = c.pc + c.instr.imm - 4]

instr_ecall(c) ==
    [c EXCEPT !.exc =
        CASE c.mode = MACHINE ->
                [exception |-> EnvironmentCallFromMMode, value |-> c.pc - 4]
          [] c.mode = SUPERVISOR ->
                [exception |-> EnvironmentCallFromSMode, value |-> c.pc - 4]
          [] c.mode = USER ->
                [exception |-> EnvironmentCallFromUMode, value |-> c.pc - 4]
          [] OTHER -> [exception |-> IllegalInstruction, value |-> 0]]

instr_ebreak(c) == [c EXCEPT !.exc.exception = Breakpoint]

instr_sret(c) ==
    LET sstatus == read_csr(c.csr, SSTATUS)
        c1 == write_csr(c.csr, SSTATUS,
                        (sstatus \ SSTATUS_SIE)
                        \cup Shr(sstatus \cap SSTATUS_SPIE, 4))
        c2 == set_csr_bits(c1, SSTATUS, SSTATUS_SPIE)
        c3 == clear_csr_bits(c2, SSTATUS, SSTATUS_SPP)
    IN  [c EXCEPT !.pc = ToInt(read_csr(c.csr, SEPC)),
                  !.mode = BitsNat(Shr(sstatus \cap SSTATUS_SPP, 8)),
                  !.csr = c3]

\* instr_mret without the clearing of MPP
instr_mret_keeps_mpp(c) ==
    LET mstatus == read_csr(c.csr, MSTATUS)
        c1 == write_csr(c.csr, MSTATUS,
                        (mstatus \ MSTATUS_MIE)
                        \cup Shr(mstatus \cap MSTATUS_MPIE, 4))
        c2 == set_csr_bits(c1, MSTATUS, MSTATUS_MPIE)
    IN  [c EXCEPT !.pc = ToInt(read_csr(c.csr, MEPC)),
                  !.mode = BitsNat(Shr(mstatus \cap MSTATUS_MPP, 11)),
                  !.csr = c2]

instr_mret(c) ==
    LET mstatus == read_csr(c.csr, MSTATUS)
        c1 == write_csr(c.csr, MSTATUS,
                        (mstatus \ MSTATUS_MIE)
                        \cup Shr(mstatus \cap MSTATUS_MPIE, 4))
        c2 == set_csr_bits(c1, MSTATUS, MSTATUS_MPIE)
        c3 == clear_csr_bits(c2, MSTATUS, MSTATUS_MPP)
    IN  [c EXCEPT !.pc = ToInt(read_csr(c.csr, MEPC)),
                  !.mode = BitsNat(Shr(mstatus \cap MSTATUS_MPP, 11)),
                  !.csr = c3]

\* the CSR index is the immediate of the instruction
instr_csrrw(c) ==
    LET tmp == read_csr(c.csr, c.instr.imm) IN
    [c EXCEPT !.csr = write_csr(c.csr, c.instr.imm, c.xreg[c.instr.rs1]),
              !.xreg[c.instr.rd] = tmp]

instr_csrrs(c) ==
    LET tmp == read_csr(c.csr, c.instr.imm) IN
    [c EXCEPT !.csr = write_csr(c.csr, c.instr.imm,
                                tmp \cup c.xreg[c.instr.rs1]),
              !.xreg[c.instr.rd] = tmp]

instr_csrrc(c) ==
    LET tmp == read_csr(c.csr, c.instr.imm) IN
    [c EXCEPT !.csr = write_csr(c.csr, c.instr.imm,
                                tmp \ c.xreg[c.instr.rs1]),
              !.xreg[c.instr.rd] = tmp]

\* the immediate forms: zimm is the rs1 field
instr_csrrwi(c) ==
    LET tmp == read_csr(c.csr, c.instr.imm) IN
    [c EXCEPT !.xreg[c.instr.rd] = tmp,
              !.csr = write_csr(c.csr, c.instr.imm, ToBits(c.instr.rs1))]

instr_csrrsi(c) ==
    LET tmp == read_csr(c.csr, c.instr.imm) IN
    [c EXCEPT !.csr = write_csr(c.csr, c.instr.imm, tmp \cup ToBits(c.instr.rs1)),
              !.xreg[c.instr.rd] = tmp]

instr_csrrci(c) ==
    LET tmp == read_csr(c.csr, c.instr.imm) IN
    [c EXCEPT !.csr = write_csr(c.csr, c.instr.imm, tmp \ ToBits(c.instr.rs1)),
              !.xreg[c.instr.rd] = tmp]

amo_add(tmp, rs2) == ToInt(tmp) + rs2

amo_swap(tmp, rs2) == rs2

amo_xor(tmp, rs2) == ToInt((tmp \ ToBits(rs2)) \cup (ToBits(rs2) \ tmp))

amo_or(tmp, rs2) == ToInt(tmp \cup ToBits(rs2))

amo_and(tmp, rs2) == ToInt(tmp \cap ToBits(rs2))

\* the word an AMO writes back
amo_result(op, tmp, rs2) ==
    CASE op = "add" -> amo_add(tmp, rs2)
      [] op = "swap" -> amo_swap(tmp, rs2)
      [] op = "xor" -> amo_xor(tmp, rs2)
      [] op = "or" -> amo_or(tmp, rs2)
      [] op = "and" -> amo_and(tmp, rs2)

\* the body shared by the AMOs: read the word at rs1, write the result of op
\* on it and rs2 back and, when neither access raised anything, put the old
\* word in rd
amo(c, size, op) ==
    LET addr == ToInt(c.xreg[c.instr.rs1])
        written(c1, tmp, w) ==
            IF ~w.ok THEN [c1 EXCEPT !.exc = w.exc]
            ELSE [c1 EXCEPT !.exc = w.exc, !.bus = w.mem,
                            !.xreg[c.instr.rd] =
                                IF size = 32 THEN ToBits(SignExtend(tmp, 32))
                                ELSE tmp]
        write(c1, tmp) ==
            written(c1, tmp,
                    write_cpu(c1, addr, size,
                              amo_result(op, tmp, ToInt(c.xreg[c.instr.rs2]))))
        read(r) ==
            IF r.exc.exception # NoException THEN [c EXCEPT !.exc = r.exc]
            ELSE write([c EXCEPT !.exc = r.exc], r.value)
    IN  read(read_cpu(c, addr, size))

instr_amoaddw(c) == amo(c, 32, "add")

instr_amoswapw(c) == amo(c, 32, "swap")

instr_amoxorw(c) == amo(c, 32, "xor")

instr_amoorw(c) == amo(c, 32, "or")

instr_amoandw(c) == amo(c, 32, "and")

instr_amoaddd(c) == amo(c, 64, "add")

instr_amoswapd(c) == amo(c, 64, "swap")

instr_amoxord(c) == amo(c, 64, "xor")

instr_amoord(c) == amo(c, 64, "or")

instr_amoandd(c) == amo(c, 64, "and")

\* LR.W / LR.D
load_reserved(c, size) ==
    LET addr == ToInt(c.xreg[c.instr.rs1])
        loaded(r) ==
            IF r.exc.exception # NoException
            THEN [c EXCEPT !.exc = r.exc]
            ELSE [c EXCEPT !.exc = r.exc,
                           !.xreg[c.instr.rd] =
                               IF size = 32 THEN ToBits(SignExtend(r.value, 32))
                               ELSE r.value,
                           !.reservation = addr]
    IN  loaded(read_cpu(c, addr, size))

instr_lrw(c) == load_reserved(c, 32)

instr_lrd(c) == load_reserved(c, 64)

\* SC.W / SC.D
store_conditional(c, size) ==
    LET addr == ToInt(c.xreg[c.instr.rs1])
        stored(w) ==
            IF ~w.ok
            THEN [c EXCEPT !.exc = w.exc]
            ELSE [c EXCEPT !.exc = w.exc, !.bus = w.mem,
                           !.xreg[c.instr.rd] = ToBits(0), !.reservation = -1]
    IN  IF c.reservation = addr
        THEN stored(write_cpu(c, addr, size, ToInt(c.xreg[c.instr.rs2])))
        ELSE [c EXCEPT !.xreg[c.instr.rd] = ToBits(1), !.reservation = -1]

instr_scw(c) == store_conditional(c, 32)

instr_scd(c) == store_conditional(c, 64)

\* cpu->instr.exec_func(cpu)
\* u is what the build makes of a shift the language leaves undefined
exec_func(c, u) ==
    LET f == c.instr.exec_func IN
    CASE f = "instr_lb" -> instr_lb(c)
      [] f = "instr_lh" -> instr_lh(c)
      [] f = "instr_lw" -> instr_lw(c)
      [] f = "instr_ld" -> instr_ld(c)
      [] f = "instr_lbu" -> instr_lbu(c)
      [] f = "instr_lhu" -> instr_lhu(c)
      [] f = "instr_lwu" -> instr_lwu(c)
      [] f = "instr_clw" -> instr_clw(c)
      [] f = "instr_cld" -> instr_cld(c)
      [] f = "instr_clwsp" -> instr_clwsp(c)
      [] f = "instr_cldsp" -> instr_cldsp(c)
      [] f = "instr_cjr_cmv" -> instr_cjr_cmv(c)
      [] f = "instr_cebreak_cjalr_cadd" -> instr_cebreak_cjalr_cadd(c)
      [] f = "instr_caddi4spn" -> instr_caddi4spn(c)
      [] f = "instr_sw" -> instr_sw(c)
      [] f = "instr_sd" -> instr_sd(c)
      [] f = "instr_addi" -> instr_addi(c)
      [] f = "instr_beq" -> instr_beq(c)
      [] f = "instr_bne" -> instr_bne(c)
      [] f = "instr_blt" -> instr_blt(c)
      [] f = "instr_bge" -> instr_bge(c)
      [] f = "instr_bltu" -> instr_bltu(c)
      [] f = "instr_bgeu" -> instr_bgeu(c)
      [] f = "instr_cbeqz" -> instr_cbeqz(c)
      [] f = "instr_cbnez" -> instr_cbnez(c)
      [] f = "instr_add" -> instr_add(c)
      [] f = "instr_sub" -> instr_sub(c)
      [] f = "instr_xor" -> instr_xor(c)
      [] f = "instr_sll" -> instr_sll(c, u)
      [] f = "instr_div" -> instr_div(c)
      [] f = "instr_divu" -> instr_divu(c)
      [] f = "instr_rem" -> instr_rem(c)
      [] f = "instr_remu" -> instr_remu(c)
      [] f = "instr_divw" -> instr_divw(c)
      [] f = "instr_divuw" -> instr_divuw(c)
      [] f = "instr_remw" -> instr_remw(c)
      [] f = "instr_remuw" -> instr_remuw(c)
      [] f = "instr_srl" -> instr_srl(c)
      [] f = "instr_sra" -> instr_sra(c)
      [] f = "instr_slli" -> instr_slli(c)
      [] f = "instr_srli" -> instr_srli(c)
      [] f = "instr_srai" -> instr_srai(c)
      [] f = "instr_sllw" -> instr_sllw(c)
      [] f = "instr_srlw" -> instr_srlw(c)
      [] f = "instr_sraw" -> instr_sraw(c)
      [] f = "instr_slliw" -> instr_slliw(c)
      [] f = "instr_srliw" -> instr_srliw(c)
      [] f = "instr_sraiw" -> instr_sraiw(c)
      [] f = "instr_jalr" -> instr_jalr(c)
      [] f = "instr_jal" -> instr_jal(c)
      [] f = "instr_ecall" -> instr_ecall(c)
      [] f = "instr_ebreak" -> instr_ebreak(c)
      [] f = "instr_sret" -> instr_sret(c)
      [] f = "instr_mret" -> instr_mret(c)
      [] f = "instr_csrrw" -> instr_csrrw(c)
      [] f = "instr_csrrs" -> instr_csrrs(c)
      [] f = "instr_csrrc" -> instr_csrrc(c)
      [] f = "instr_csrrwi" -> instr_csrrwi(c)
      [] f = "instr_csrrsi" -> instr_csrrsi(c)
      [] f = "instr_csrrci" -> instr_csrrci(c)
      [] f = "instr_amoaddw" -> instr_amoaddw(c)
      [] f = "instr_amoswapw" -> instr_amoswapw(c)
      [] f = "instr_amoxorw" -> instr_amoxorw(c)
      [] f = "instr_amoorw" -> instr_amoorw(c)
      [] f = "instr_amoandw" -> instr_amoandw(c)
      [] f = "instr_amoaddd" -> instr_amoaddd(c)
      [] f = "instr_amoswapd" -> instr_amoswapd(c)
      [] f = "instr_amoxord" -> instr_amoxord(c)
      [] f = "instr_amoord" -> instr_amoord(c)
      [] f = "instr_amoandd" -> instr_amoandd(c)
      [] f = "instr_lrw" -> instr_lrw(c)
      [] f = "instr_lrd" -> instr_lrd(c)
      [] f = "instr_scw" -> instr_scw(c)
      [] f = "instr_scd" -> instr_scd(c)

\* exec without the reset of x0
exec_keeps_x0(c, u) == exec_func(c, u)

\* exec: run the executor, force x0 to 0; the result is whether the slot
\* is still clean
exec(c, u) == [exec_func(c, u) EXCEPT !.xreg[0] = ToBits(0)]

----------------------------------------------------------------------------
(* Trap engine *)

Trap_Fatal == "Trap_Fatal"
Trap_Requested == "Trap_Requested"
Trap_Invisible == "Trap_Invisible"

\* the switch with IllegalInstruction among the requested traps
trap_of_illegal_requested(exception) ==
    CASE exception \in {InstructionAddressMisaligned, InstructionAccessFault,
                        LoadAddressMisaligned, LoadAccessFault,
                        StoreAMOAddressMisaligned, StoreAMOAccessFault}
            -> Trap_Fatal
      [] exception \in {InstructionPageFault, LoadPageFault, StoreAMOPageFault}
            -> Trap_Invisible
      [] OTHER -> Trap_Requested

\* the trap outcome of an exception kind (the switch that ends
\* handle_exception)
trap_of(exception) ==
    CASE exception \in {InstructionAddressMisaligned, InstructionAccessFault}
            -> Trap_Fatal
      [] exception = IllegalInstruction -> Trap_Fatal
      [] exception = Breakpoint -> Trap_Requested
      [] exception \in {LoadAddressMisaligned, LoadAccessFault,
                        StoreAMOAddressMisaligned, StoreAMOAccessFault}
            -> Trap_Fatal
      [] exception \in {EnvironmentCallFromUMode, EnvironmentCallFromSMode,
                        EnvironmentCallFromMMode}
            -> Trap_Requested
      [] exception \in {InstructionPageFault, LoadPageFault, StoreAMOPageFault}
            -> Trap_Invisible
      [] OTHER -> Trap_Fatal

\* xtvec & ~0x1: the mode bit is kept only in part
tvec_keeps_mode(xtvec) == ToInt(xtvec \ {0})

\* xtvec & ~0x3: the base of the trap vector
tvec_base(xtvec) == ToInt(xtvec \ {0, 1})

\* the test of the delegation bit inverted: == 1 for == 0
delegated_mode_inverted(c, cause, mdeleg, sdeleg) ==
    IF Shr(read_csr(c.csr, mdeleg), cause) \cap {0} # {} THEN MACHINE
    ELSE IF Shr(read_csr(c.csr, sdeleg), cause) \cap {0} # {} THEN SUPERVISOR
    ELSE USER

\* the mode a cause is routed to by a pair of delegation registers
delegated_mode(c, cause, mdeleg, sdeleg) ==
    IF Shr(read_csr(c.csr, mdeleg), cause) \cap {0} = {} THEN MACHINE
    ELSE IF Shr(read_csr(c.csr, sdeleg), cause) \cap {0} = {} THEN SUPERVISOR
    ELSE USER

\* the status update of a trap entry into supervisor mode
enter_supervisor(csr0, prev_mode) ==
    LET sstatus == read_csr(csr0, SSTATUS)
        c1 == write_csr(csr0, SSTATUS,
                        (sstatus \ SSTATUS_SPIE)
                        \cup Shl(sstatus \cap SSTATUS_SIE, 4))
        c2 == clear_csr_bits(c1, SSTATUS, SSTATUS_SIE)
        sstatus2 == read_csr(c2, SSTATUS)
    IN  write_csr(c2, SSTATUS,
                  (sstatus2 \ SSTATUS_SPP) \cup Shl(ToBits(prev_mode), 8))

\* enter_machine without clear_csr_bits(MSTATUS, MSTATUS_MIE)
enter_machine_keeps_ie(csr0, prev_mode) ==
    LET mstatus == read_csr(csr0, MSTATUS)
        c1 == write_csr(csr0, MSTATUS,
                        (mstatus \ MSTATUS_MPIE)
                        \cup Shl(mstatus \cap MSTATUS_MIE, 4))
    IN  write_csr(c1, MSTATUS,
                  (read_csr(c1, MSTATUS) \ MSTATUS_MPP) \cup Shl(ToBits(prev_mode), 11))

\* the status update of a trap entry into machine mode
enter_machine(csr0, prev_mode) ==
    LET mstatus == read_csr(csr0, MSTATUS)
        c1 == write_csr(csr0, MSTATUS,
                        (mstatus \ MSTATUS_MPIE)
                        \cup Shl(mstatus \cap MSTATUS_MIE, 4))
        c2 == clear_csr_bits(c1, MSTATUS, MSTATUS_MIE)
        mstatus2 == read_csr(c2, MSTATUS)
    IN  write_csr(c2, MSTATUS,
                  (mstatus2 \ MSTATUS_MPP) \cup Shl(ToBits(prev_mode), 11))

\* handle_exception(cpu, exc_pc): the hart after the entry, the outcome,
\* and whether the process was ended by exit(1)
handle_exception(c, exc_pc) ==
    LET prev_mode == c.mode
        cause == c.exc.exception
        mode == delegated_mode(c, cause, MEDELEG, SEDELEG)
        xepc == IF mode = SUPERVISOR THEN SEPC ELSE MEPC
        xcause == IF mode = SUPERVISOR THEN SCAUSE ELSE MCAUSE
        xtval == IF mode = SUPERVISOR THEN STVAL ELSE MTVAL
        xtvec == IF mode = SUPERVISOR THEN STVEC ELSE MTVEC
        c1 == write_csr(c.csr, xepc, ToBits(exc_pc) \ {0})
        c2 == write_csr(c1, xcause, ToBits(cause))
        c3 == write_csr(c2, xtval, ToBits(c.exc.value))
        c4 == IF mode = SUPERVISOR THEN enter_supervisor(c3, prev_mode)
              ELSE enter_machine(c3, prev_mode)
    IN  IF mode \in {SUPERVISOR, MACHINE}
        THEN [cpu |-> [c EXCEPT !.mode = mode,
                                !.pc = tvec_base(read_csr(c.csr, xtvec)),
                                !.csr = c4],
              trap |-> trap_of(c.exc.exception),
              exited |-> FALSE]
        ELSE [cpu |-> [c EXCEPT !.mode = mode],
              trap |-> Trap_Fatal,
              exited |-> TRUE]

\* the vector without the vectored mode: the base for every cause
irq_vector_direct(xtvec, cause) == tvec_base(xtvec)

\* the pc an interrupt is entered at: xtvec & 1 selects base + 4 * cause
irq_vector(xtvec, cause) ==
    IF xtvec \cap {0} # {}
    THEN tvec_base(xtvec) + 4 * cause
    ELSE tvec_base(xtvec)

\* interrput_take_trap(cpu, new_mode)
interrput_take_trap(c, new_mode) ==
    LET irq_pc == c.pc
        prev_mode == c.mode
        cause == c.irq.irq
        xepc == IF new_mode = SUPERVISOR THEN SEPC ELSE MEPC
        xcause == IF new_mode = SUPERVISOR THEN SCAUSE ELSE MCAUSE
        xtval == IF new_mode = SUPERVISOR THEN STVAL ELSE MTVAL
        xtvec == read_csr(c.csr,
                          IF new_mode = SUPERVISOR THEN STVEC ELSE MTVEC)
        c1 == write_csr(c.csr, xepc, ToBits(irq_pc) \ {0})
        c2 == write_csr(c1, xcause, {63} \cup ToBits(cause))
        c3 == write_csr(c2, xtval, ToBits(c.irq.value))
        c4 == IF new_mode = SUPERVISOR THEN enter_supervisor(c3, prev_mode)
              ELSE enter_machine(c3, prev_mode)
    IN  IF new_mode \in {SUPERVISOR, MACHINE}
        THEN [cpu |-> [c EXCEPT !.mode = new_mode,
                                !.pc = irq_vector(xtvec, cause),
                                !.csr = c4],
              exited |-> FALSE]
        ELSE [cpu |-> [c EXCEPT !.mode = new_mode], exited |-> TRUE]

\* irq_enable without the test of sstatus.SIE
irq_enable_ignores_sie(c, cause) ==
    LET taken(t) == [ret |-> ~t.exited, cpu |-> t.cpu, exited |-> t.exited]
        gate(new_mode) ==
            IF new_mode < c.mode
            THEN [ret |-> FALSE, cpu |-> c, exited |-> FALSE]
            ELSE IF new_mode = c.mode /\ c.mode = MACHINE
                    /\ ~check_csr_bit(c.csr, MSTATUS, MSTATUS_MIE)
            THEN [ret |-> FALSE, cpu |-> c, exited |-> FALSE]
            ELSE IF new_mode = c.mode /\ c.mode \notin {MACHINE, SUPERVISOR}
            THEN [ret |-> FALSE, cpu |-> c, exited |-> TRUE]
            ELSE taken(interrput_take_trap(
                           [c EXCEPT !.irq = [irq |-> cause, value |-> c.pc]],
                           new_mode))
    IN  gate(delegated_mode(c, cause, MIDELEG, SIDELEG))

\* irq_enable(cpu, cause): whether the cause was taken
irq_enable(c, cause) ==
    LET taken(t) == [ret |-> ~t.exited, cpu |-> t.cpu, exited |-> t.exited]
        gate(new_mode) ==
            IF new_mode < c.mode
            THEN [ret |-> FALSE, cpu |-> c, exited |-> FALSE]
            ELSE IF new_mode = c.mode /\ c.mode = MACHINE
                    /\ ~check_csr_bit(c.csr, MSTATUS, MSTATUS_MIE)
            THEN [ret |-> FALSE, cpu |-> c, exited |-> FALSE]
            ELSE IF new_mode = c.mode /\ c.mode = SUPERVISOR
                    /\ ~check_csr_bit(c.csr, SSTATUS, SSTATUS_SIE)
            THEN [ret |-> FALSE, cpu |-> c, exited |-> FALSE]
            ELSE IF new_mode = c.mode /\ c.mode \notin {MACHINE, SUPERVISOR}
            THEN [ret |-> FALSE, cpu |-> c, exited |-> TRUE]
            ELSE taken(interrput_take_trap(
                           [c EXCEPT !.irq = [irq |-> cause, value |-> c.pc]],
                           new_mode))
    IN  gate(delegated_mode(c, cause, MIDELEG, SIDELEG))

\* the order with the software interrupts ahead of the external ones
irq_order_software_first ==
    << [bit |-> MIP_MSIP, cause |-> MachineSoftwareInterrupt, ie |-> MIE, ip |-> MIP],
       [bit |-> MIP_MEIP, cause |-> MachineExternalInterrupt, ie |-> MIE, ip |-> MIP],
       [bit |-> MIP_MTIP, cause |-> MachineTimerInterrupt, ie |-> MIE, ip |-> MIP],
       [bit |-> MIP_SSIP, cause |-> SupervisorSoftwareInterrupt, ie |-> SIE, ip |-> SIP],
       [bit |-> MIP_SEIP, cause |-> SupervisorExternalInterrupt, ie |-> SIE, ip |-> SIP],
       [bit |-> MIP_STIP, cause |-> SupervisorTimerInterrupt, ie |-> SIE, ip |-> SIP] >>

\* the order in which handle_interrupt examines the causes; the machine
\* causes are looked up in mie & mip, the supervisor causes in sie & sip
irq_order ==
    << [bit |-> MIP_MEIP, cause |-> MachineExternalInterrupt, ie |-> MIE, ip |-> MIP],
       [bit |-> MIP_MSIP, cause |-> MachineSoftwareInterrupt, ie |-> MIE, ip |-> MIP],
       [bit |-> MIP_MTIP, cause |-> MachineTimerInterrupt, ie |-> MIE, ip |-> MIP],
       [bit |-> MIP_SEIP, cause |-> SupervisorExternalInterrupt, ie |-> SIE, ip |-> SIP],
       [bit |-> MIP_SSIP, cause |-> SupervisorSoftwareInterrupt, ie |-> SIE, ip |-> SIP],
       [bit |-> MIP_STIP, cause |-> SupervisorTimerInterrupt, ie |-> SIE, ip |-> SIP] >>

\* handle_interrupt(cpu) from its k-th test on
RECURSIVE poll_from(_, _)
poll_from(c, k) ==
    IF k > Len(irq_order)
    THEN [cpu |-> c, took |-> NoInterrupt, exited |-> FALSE]
    ELSE
    LET asked(e, r) ==
            IF r.exited THEN [cpu |-> r.cpu, took |-> NoInterrupt, exited |-> TRUE]
            ELSE IF r.ret
            THEN [cpu |-> [r.cpu EXCEPT !.csr = clear_csr_bits(@, MIP, e.bit)],
                  took |-> e.cause, exited |-> FALSE]
            ELSE poll_from(c, k + 1)
        test(e) ==
            IF read_csr(c.csr, e.ie) \cap read_csr(c.csr, e.ip) \cap e.bit = {}
            THEN poll_from(c, k + 1)
            ELSE asked(e, irq_enable(c, e.cause))
    IN  test(irq_order[k])

handle_interrupt(c) == poll_from(c, 1)

----------------------------------------------------------------------------
(* Fetch and decode.  An instruction word of the model is a record         *)
(* [kind, rd, rs1, rs2, imm, len, ix]: ix holds the fields of the word the *)
(* decode tables are indexed by (opcode, funct3, funct7, funct6, funct2,   *)
(* funct4, width), rs2 is one more of them; kind is the name the word goes *)
(* by: the executor its encoding stands for, "zero" for the all-zero       *)
(* 16-bit word, "undef" for a word of no instruction; len is 2 when the    *)
(* low two bits of the word are not 11, else 4.                            *)

\* a riscv_instr_entry {decode_func, exec_func, next, entry_name}, and the
\* zero-initialised entry of a gap
Entry(d, f, t) == [decode_func |-> d, exec_func |-> f, next |-> t]

EmptyEntry == Entry("NULL", "NULL", "NULL")

\* INIT_RISCV_INSTR_LIST(_type, _instr): the size is that of the array,
\* one more than the highest index initialised
INIT_RISCV_INSTR_LIST(type, list) ==
    [type |-> type,
     size |-> 1 + CHOOSE n \in DOMAIN list : \A k \in DOMAIN list : k <= n,
     list |-> list]

\* the decode tables, by the name of their array
instr_tables ==
    [instr_load_type |-> INIT_RISCV_INSTR_LIST("FUNC3",
        0 :> Entry("NULL", "instr_lb", "NULL")
        @@ 1 :> Entry("NULL", "instr_lh", "NULL")
        @@ 2 :> Entry("NULL", "instr_lw", "NULL")
        @@ 3 :> Entry("NULL", "instr_ld", "NULL")
        @@ 4 :> Entry("NULL", "instr_lbu", "NULL")
        @@ 5 :> Entry("NULL", "instr_lhu", "NULL")
        @@ 6 :> Entry("NULL", "instr_lwu", "NULL")),
     instr_fence_type |-> INIT_RISCV_INSTR_LIST("FUNC3",
        0 :> Entry("NULL", "instr_fence", "NULL")
        @@ 1 :> Entry("NULL", "instr_fencei", "NULL")),
     instr_srli_srai_type |-> INIT_RISCV_INSTR_LIST("FUNC7_S",
        0 :> Entry("NULL", "instr_srli", "NULL")
        @@ 16 :> Entry("NULL", "instr_srai", "NULL")),
     instr_imm_type |-> INIT_RISCV_INSTR_LIST("FUNC3",
        0 :> Entry("NULL", "instr_addi", "NULL")
        @@ 1 :> Entry("NULL", "instr_slli", "NULL")
        @@ 2 :> Entry("NULL", "instr_slti", "NULL")
        @@ 3 :> Entry("NULL", "instr_sltiu", "NULL")
        @@ 4 :> Entry("NULL", "instr_xori", "NULL")
        @@ 5 :> Entry("NULL", "NULL", "instr_srli_srai_type")
        @@ 6 :> Entry("NULL", "instr_ori", "NULL")
        @@ 7 :> Entry("NULL", "instr_andi", "NULL")),
     instr_add_mul_sub_type |-> INIT_RISCV_INSTR_LIST("FUNC7",
        0 :> Entry("NULL", "instr_add", "NULL")
        @@ 1 :> Entry("NULL", "instr_mul", "NULL")
        @@ 32 :> Entry("NULL", "instr_sub", "NULL")),
     instr_sll_mulh_type |-> INIT_RISCV_INSTR_LIST("FUNC7",
        0 :> Entry("NULL", "instr_sll", "NULL")
        @@ 1 :> Entry("NULL", "instr_mulh", "NULL")),
     instr_slt_mulhsu_type |-> INIT_RISCV_INSTR_LIST("FUNC7",
        0 :> Entry("NULL", "instr_slt", "NULL")
        @@ 1 :> Entry("NULL", "instr_mulhsu", "NULL")),
     instr_sltu_mulhu_type |-> INIT_RISCV_INSTR_LIST("FUNC7",
        0 :> Entry("NULL", "instr_sltu", "NULL")
        @@ 1 :> Entry("NULL", "instr_mulhu", "NULL")),
     instr_xor_div_type |-> INIT_RISCV_INSTR_LIST("FUNC7",
        0 :> Entry("NULL", "instr_xor", "NULL")
        @@ 1 :> Entry("NULL", "instr_div", "NULL")),
     instr_srl_divu_sra_type |-> INIT_RISCV_INSTR_LIST("FUNC7",
        0 :> Entry("NULL", "instr_srl", "NULL")
        @@ 1 :> Entry("NULL", "instr_divu", "NULL")
        @@ 32 :> Entry("NULL", "instr_sra", "NULL")),
     instr_or_rem_type |-> INIT_RISCV_INSTR_LIST("FUNC7",
        0 :> Entry("NULL", "instr_or", "NULL")
        @@ 1 :> Entry("NULL", "instr_rem", "NULL")),
     instr_and_remu_type |-> INIT_RISCV_INSTR_LIST("FUNC7",
        0 :> Entry("NULL", "instr_and", "NULL")
        @@ 1 :> Entry("NULL", "instr_remu", "NULL")),
     instr_reg_type |-> INIT_RISCV_INSTR_LIST("FUNC3",
        0 :> Entry("NULL", "NULL", "instr_add_mul_sub_type")
        @@ 1 :> Entry("NULL", "NULL", "instr_sll_mulh_type")
        @@ 2 :> Entry("NULL", "NULL", "instr_slt_mulhsu_type")
        @@ 3 :> Entry("NULL", "NULL", "instr_sltu_mulhu_type")
        @@ 4 :> Entry("NULL", "NULL", "instr_xor_div_type")
        @@ 5 :> Entry("NULL", "NULL", "instr_srl_divu_sra_type")
        @@ 6 :> Entry("NULL", "NULL", "instr_or_rem_type")
        @@ 7 :> Entry("NULL", "NULL", "instr_and_remu_type")),
     instr_srliw_sraiw_type |-> INIT_RISCV_INSTR_LIST("FUNC7",
        0 :> Entry("NULL", "instr_srliw", "NULL")
        @@ 32 :> Entry("NULL", "instr_sraiw", "NULL")),
     instr_immw_type |-> INIT_RISCV_INSTR_LIST("FUNC3",
        0 :> Entry("NULL", "instr_addiw", "NULL")
        @@ 1 :> Entry("NULL", "instr_slliw", "NULL")
        @@ 5 :> Entry("NULL", "NULL", "instr_srliw_sraiw_type")),
     instr_store_type |-> INIT_RISCV_INSTR_LIST("FUNC3",
        0 :> Entry("NULL", "instr_sb", "NULL")
        @@ 1 :> Entry("NULL", "instr_sh", "NULL")
        @@ 2 :> Entry("NULL", "instr_sw", "NULL")
        @@ 3 :> Entry("NULL", "instr_sd", "NULL")),
     instr_store_fp_type |-> INIT_RISCV_INSTR_LIST("WIDTH",
        2 :> Entry("NULL", "instr_fsw", "NULL")
        @@ 3 :> Entry("NULL", "instr_fsd", "NULL")),
     instr_addw_mulw_subw_type |-> INIT_RISCV_INSTR_LIST("FUNC7",
        0 :> Entry("NULL", "instr_addw", "NULL")
        @@ 1 :> Entry("NULL", "instr_mulw", "NULL")
        @@ 32 :> Entry("NULL", "instr_subw", "NULL")),
     instr_sllw_type |-> INIT_RISCV_INSTR_LIST("FUNC7", 0 :> Entry("NULL", "instr_sllw", "NULL")),
     instr_divw_type |-> INIT_RISCV_INSTR_LIST("FUNC7", 1 :> Entry("NULL", "instr_divw", "NULL")),
     instr_srlw_divuw_sraw_type |-> INIT_RISCV_INSTR_LIST("FUNC7",
        0 :> Entry("NULL", "instr_srlw", "NULL")
        @@ 1 :> Entry("NULL", "instr_divuw", "NULL")
        @@ 32 :> Entry("NULL", "instr_sraw", "NULL")),
     instr_remw_type |-> INIT_RISCV_INSTR_LIST("FUNC7", 1 :> Entry("NULL", "instr_remw", "NULL")),
     instr_remuw_type |-> INIT_RISCV_INSTR_LIST("FUNC7", 1 :> Entry("NULL", "instr_remuw", "NULL")),
     instr_regw_type |-> INIT_RISCV_INSTR_LIST("FUNC3",
        0 :> Entry("NULL", "NULL", "instr_addw_mulw_subw_type")
        @@ 1 :> Entry("NULL", "NULL", "instr_sllw_type")
        @@ 4 :> Entry("NULL", "NULL", "instr_divw_type")
        @@ 5 :> Entry("NULL", "NULL", "instr_srlw_divuw_sraw_type")
        @@ 6 :> Entry("NULL", "NULL", "instr_remw_type")
        @@ 7 :> Entry("NULL", "NULL", "instr_remuw_type")),
     instr_branch_type |-> INIT_RISCV_INSTR_LIST("FUNC3",
        0 :> Entry("NULL", "instr_beq", "NULL")
        @@ 1 :> Entry("NULL", "instr_bne", "NULL")
        @@ 4 :> Entry("NULL", "instr_blt", "NULL")
        @@ 5 :> Entry("NULL", "instr_bge", "NULL")
        @@ 6 :> Entry("NULL", "instr_bltu", "NULL")
        @@ 7 :> Entry("NULL", "instr_bgeu", "NULL")),
     instr_ecall_ebreak_type |-> INIT_RISCV_INSTR_LIST("RS2",
        0 :> Entry("NULL", "instr_ecall", "NULL")
        @@ 1 :> Entry("NULL", "instr_ebreak", "NULL")),
     instr_sret_wfi_type |-> INIT_RISCV_INSTR_LIST("RS2",
        2 :> Entry("NULL", "instr_sret", "NULL")
        @@ 5 :> Entry("NULL", "instr_wfi", "NULL")),
     instr_ret_type |-> INIT_RISCV_INSTR_LIST("FUNC7",
        0 :> Entry("NULL", "NULL", "instr_ecall_ebreak_type")
        @@ 8 :> Entry("NULL", "NULL", "instr_sret_wfi_type")
        @@ 24 :> Entry("NULL", "instr_mret", "NULL")
        @@ 9 :> Entry("NULL", "instr_sfencevma", "NULL")
        @@ 17 :> Entry("NULL", "instr_hfencebvma", "NULL")
        @@ 81 :> Entry("NULL", "instr_hfencegvma", "NULL")),
     instr_csr_type |-> INIT_RISCV_INSTR_LIST("FUNC3",
        0 :> Entry("NULL", "NULL", "instr_ret_type")
        @@ 1 :> Entry("NULL", "instr_csrrw", "NULL")
        @@ 2 :> Entry("NULL", "instr_csrrs", "NULL")
        @@ 3 :> Entry("NULL", "instr_csrrc", "NULL")
        @@ 5 :> Entry("NULL", "instr_csrrwi", "NULL")
        @@ 6 :> Entry("NULL", "instr_csrrsi", "NULL")
        @@ 7 :> Entry("NULL", "instr_csrrci", "NULL")),
     instr_amow_type |-> INIT_RISCV_INSTR_LIST("FUNC5",
        0 :> Entry("NULL", "instr_amoaddw", "NULL")
        @@ 1 :> Entry("NULL", "instr_amoswapw", "NULL")
        @@ 2 :> Entry("NULL", "instr_lrw", "NULL")
        @@ 3 :> Entry("NULL", "instr_scw", "NULL")
        @@ 4 :> Entry("NULL", "instr_amoxorw", "NULL")
        @@ 8 :> Entry("NULL", "instr_amoorw", "NULL")
        @@ 12 :> Entry("NULL", "instr_amoandw", "NULL")),
     instr_amod_type |-> INIT_RISCV_INSTR_LIST("FUNC5",
        0 :> Entry("NULL", "instr_amoaddd", "NULL")
        @@ 1 :> Entry("NULL", "instr_amoswapd", "NULL")
        @@ 2 :> Entry("NULL", "instr_lrd", "NULL")
        @@ 3 :> Entry("NULL", "instr_scd", "NULL")
        @@ 4 :> Entry("NULL", "instr_amoxord", "NULL")
        @@ 8 :> Entry("NULL", "instr_amoord", "NULL")
        @@ 12 :> Entry("NULL", "instr_amoandd", "NULL")),
     instr_atomic_type |-> INIT_RISCV_INSTR_LIST("FUNC3",
        2 :> Entry("NULL", "NULL", "instr_amow_type")
        @@ 3 :> Entry("NULL", "NULL", "instr_amod_type")),
     instr_c0_type |-> INIT_RISCV_INSTR_LIST("FUNC3",
        0 :> Entry("CIW_decode", "instr_caddi4spn", "NULL")
        @@ 2 :> Entry("CL_decode", "instr_clw", "NULL")
        @@ 3 :> Entry("CL_decode", "instr_cld", "NULL")
        @@ 5 :> Entry("CS_decode", "instr_cfsd", "NULL")
        @@ 6 :> Entry("CS_decode", "instr_csw", "NULL")
        @@ 7 :> Entry("CS_decode", "instr_csd", "NULL")),
     instr_ca_type |-> INIT_RISCV_INSTR_LIST("FUNC2_S",
        0 :> Entry("NULL", "instr_csub", "NULL")
        @@ 1 :> Entry("NULL", "instr_cxor", "NULL")
        @@ 2 :> Entry("NULL", "instr_cor", "NULL")
        @@ 3 :> Entry("NULL", "instr_cand", "NULL")
        @@ 4 :> Entry("NULL", "instr_csubw", "NULL")
        @@ 5 :> Entry("NULL", "instr_caddw", "NULL")),
     instr_cb_ca_type |-> INIT_RISCV_INSTR_LIST("FUNC6_S",
        0 :> Entry("CB_decode", "instr_csrli", "NULL")
        @@ 1 :> Entry("CB_decode", "instr_csrai", "NULL")
        @@ 2 :> Entry("CB_decode", "instr_candi", "NULL")
        @@ 3 :> Entry("CA_decode", "NULL", "instr_ca_type")),
     instr_c1_type |-> INIT_RISCV_INSTR_LIST("FUNC3",
        0 :> Entry("CI_decode", "instr_caddi", "NULL")
        @@ 1 :> Entry("CI_decode", "instr_caddiw", "NULL")
        @@ 2 :> Entry("CI_decode", "instr_cli", "NULL")
        @@ 3 :> Entry("CI_decode", "instr_clui_caddi16sp", "NULL")
        @@ 4 :> Entry("Cxx_decode", "NULL", "instr_cb_ca_type")
        @@ 5 :> Entry("CJ_decode", "instr_cj", "NULL")
        @@ 6 :> Entry("CB_decode", "instr_cbeqz", "NULL")
        @@ 7 :> Entry("CB_decode", "instr_cbnez", "NULL")),
     instr_cr_type |-> INIT_RISCV_INSTR_LIST("FUNC4_S",
        0 :> Entry("NULL", "instr_cjr_cmv", "NULL")
        @@ 1 :> Entry("NULL", "instr_cebreak_cjalr_cadd", "NULL")),
     instr_c2_type |-> INIT_RISCV_INSTR_LIST("FUNC3",
        0 :> Entry("CI_decode", "instr_cslli", "NULL")
        @@ 2 :> Entry("CI_decode", "instr_clwsp", "NULL")
        @@ 3 :> Entry("CI_decode", "instr_cldsp", "NULL")
        @@ 4 :> Entry("CR_decode", "NULL", "instr_cr_type")
        @@ 6 :> Entry("CSS_decode", "instr_cswsp", "NULL")
        @@ 7 :> Entry("CSS_decode", "instr_csdsp", "NULL")),
     opcode_type |-> INIT_RISCV_INSTR_LIST("OPCODE",
        0 :> Entry("Cx_decode", "NULL", "instr_c0_type")
        @@ 1 :> Entry("Cx_decode", "NULL", "instr_c1_type")
        @@ 2 :> Entry("Cx_decode", "NULL", "instr_c2_type")
        @@ 3 :> Entry("I_decode", "NULL", "instr_load_type")
        @@ 15 :> Entry("I_decode", "NULL", "instr_fence_type")
        @@ 19 :> Entry("I_decode", "NULL", "instr_imm_type")
        @@ 23 :> Entry("U_decode", "instr_auipc", "NULL")
        @@ 27 :> Entry("I_decode", "NULL", "instr_immw_type")
        @@ 35 :> Entry("S_decode", "NULL", "instr_store_type")
        @@ 39 :> Entry("FS_decode", "NULL", "instr_store_fp_type")
        @@ 47 :> Entry("R_decode", "NULL", "instr_atomic_type")
        @@ 51 :> Entry("R_decode", "NULL", "instr_reg_type")
        @@ 55 :> Entry("U_decode", "instr_lui", "NULL")
        @@ 59 :> Entry("R_decode", "NULL", "instr_regw_type")
        @@ 99 :> Entry("B_decode", "NULL", "instr_branch_type")
        @@ 103 :> Entry("I_decode", "instr_jalr", "NULL")
        @@ 111 :> Entry("J_decode", "instr_jal", "NULL")
        @@ 115 :> Entry("P_decode", "NULL", "instr_csr_type"))]

\* the switch of __decode: the index the type of the table selects
decode_index(type, w) ==
    CASE type = "OPCODE" -> w.ix.opcode
      [] type = "FUNC2_S" -> ((w.ix.funct6 \div 4) % 2) * 4 + w.ix.funct2
      [] type = "FUNC3" -> w.ix.funct3
      [] type = "FUNC4_S" -> w.ix.funct4 % 2
      [] type = "FUNC5" -> (w.ix.funct7 % 128) \div 4
      [] type = "FUNC6_S" -> w.ix.funct6 % 4
      [] type = "FUNC7_S" -> w.ix.funct7 \div 2
      [] type = "FUNC7" -> w.ix.funct7
      [] type = "RS2" -> w.rs2
      [] type = "WIDTH" -> w.ix.width

\* __decode that takes an empty slot for an entry and ends the descent
\* there with success
RECURSIVE __decode_binds_empty(_, _)
__decode_binds_empty(w, table) ==
    LET chosen(entry) ==
            IF entry.next # "NULL" THEN __decode_binds_empty(w, entry.next)
            ELSE [ret |-> TRUE, exec_func |-> entry.exec_func]
        select(desc, index) ==
            IF index >= desc.size THEN [ret |-> FALSE, exec_func |-> "NULL"]
            ELSE chosen(IF index \in DOMAIN desc.list
                        THEN desc.list[index] ELSE EmptyEntry)
        descend(desc) == select(desc, decode_index(desc.type, w))
    IN  descend(instr_tables[table])

\* __decode(cpu, instr_desc): ret is its result and exec_func the executor
\* it bound; it sets IllegalInstruction exactly when ret is false
RECURSIVE __decode(_, _)
__decode(w, table) ==
    LET chosen(entry) ==
            IF entry = EmptyEntry THEN [ret |-> FALSE, exec_func |-> "NULL"]
            ELSE IF entry.next # "NULL" THEN __decode(w, entry.next)
            ELSE [ret |-> TRUE, exec_func |-> entry.exec_func]
        select(desc, index) ==
            IF index >= desc.size THEN [ret |-> FALSE, exec_func |-> "NULL"]
            ELSE chosen(IF index \in DOMAIN desc.list
                        THEN desc.list[index] ELSE EmptyEntry)
        descend(desc) == select(desc, decode_index(desc.type, w))
    IN  descend(instr_tables[table])

\* fetch(cpu), w being the word on the bus at the translated pc
fetch(c, w) ==
    LET fetched(t) ==
            IF t.exc.exception # NoException
            THEN [cpu |-> [c EXCEPT !.exc = t.exc], ret |-> FALSE]
            ELSE IF ~InRom(t.addr) /\ t.addr \notin DOMAIN c.bus
            THEN [cpu |-> [c EXCEPT !.exc = read_bus(c.bus, t.exc, t.addr, 32).exc],
                  ret |-> FALSE]
            ELSE IF w.len = 2 /\ w.kind = "zero"
            THEN [cpu |-> [c EXCEPT !.exc.exception = IllegalInstruction],
                  ret |-> FALSE]
            ELSE [cpu |-> [c EXCEPT !.instr.instr = w, !.pc = c.pc + w.len],
                  ret |-> TRUE]
    IN  fetched(addr_translate(c.csr, c.mode, c.bus, c.exc, c.pc, Access_Instr))

\* decode that flags an unknown word and still reports success, with the
\* executor of ADDI bound
decode_reports_success(c) ==
    LET bound(w, d) ==
            [cpu |-> [c EXCEPT !.exc.exception =
                                   IF d.ret THEN @ ELSE IllegalInstruction,
                               !.instr = [instr |-> w,
                                          exec_func |-> IF d.ret THEN d.exec_func
                                                        ELSE "instr_addi",
                                          rd |-> w.rd, rs1 |-> w.rs1,
                                          rs2 |-> w.rs2, imm |-> w.imm]],
             ret |-> TRUE]
    IN  bound(c.instr.instr, __decode(c.instr.instr, "opcode_type"))

\* decode(cpu): the table descent of __decode from opcode_type either
\* binds an executor and the decoded fields or raises IllegalInstruction
decode(c) ==
    LET bound(w, d) ==
            IF ~d.ret
            THEN [cpu |-> [c EXCEPT !.exc.exception = IllegalInstruction],
                  ret |-> FALSE]
            ELSE [cpu |-> [c EXCEPT !.instr = [instr |-> w,
                                               exec_func |-> d.exec_func,
                                               rd |-> w.rd, rs1 |-> w.rs1,
                                               rs2 |-> w.rs2, imm |-> w.imm]],
                  ret |-> TRUE]
    IN  bound(c.instr.instr, __decode(c.instr.instr, "opcode_type"))

\* the index fields of a 32-bit word (width is funct3's bits) and of a
\* 16-bit word
Ix32(opcode, funct3, funct7) ==
    [opcode |-> opcode, funct3 |-> funct3, funct7 |-> funct7, funct6 |-> 0,
     funct2 |-> 0, funct4 |-> 0, width |-> funct3]

Ix16(opcode, funct3, funct6, funct2, funct4) ==
    [opcode |-> opcode, funct3 |-> funct3, funct7 |-> 0, funct6 |-> funct6,
     funct2 |-> funct2, funct4 |-> funct4, width |-> 0]

NoWord == [kind |-> "undef", rd |-> 0, rs1 |-> 0, rs2 |-> 0, imm |-> 0, len |-> 4,
           ix |-> Ix32(0, 0, 0)]

\* memset(&cpu->instr, 0, sizeof(riscv_instr)); cpu->instr.exec_func = NULL
NoInstr == [instr |-> NoWord, exec_func |-> "NULL",
            rd |-> 0, rs1 |-> 0, rs2 |-> 0, imm |-> 0]

----------------------------------------------------------------------------
(* tick_cpu, one action per step *)

\* tick_csr and tick_bus: the devices raise some of their lines in mip
TickBus ==
    /\ stage = "bus"
    /\ \E raised \in SUBSET lines :
          cpu' = [cpu EXCEPT !.csr[MIP] = @ \cup raised]
    /\ stage' = "irq"
    /\ UNCHANGED <<instr_addr, took, lr_state, image, lines>>

\* handle_interrupt, then instr_addr = cpu->pc
HandleInterrupt ==
    /\ stage = "irq"
    /\ LET polled(r) ==
              /\ cpu' = r.cpu
              /\ took' = r.took
              /\ stage' = IF r.exited THEN "exited" ELSE "fetch"
              /\ instr_addr' = r.cpu.pc
              /\ lr_state' = IF r.took # NoInterrupt /\ lr_state = "lr"
                              THEN "lr_trap" ELSE lr_state
       IN  polled(handle_interrupt(cpu))
    /\ UNCHANGED <<image, lines>>

Fetch ==
    /\ stage = "fetch"
    /\ LET fetched(r) ==
              /\ cpu' = r.cpu
              /\ stage' = IF r.ret THEN "decode" ELSE "trap"
       IN  \E w \in image : fetched(fetch(cpu, w))
    /\ UNCHANGED <<instr_addr, took, lr_state, image, lines>>

Decode ==
    /\ stage = "decode"
    /\ LET decoded(r) ==
              /\ cpu' = r.cpu
              /\ stage' = IF r.ret THEN "exec" ELSE "trap"
       IN  decoded(decode(cpu))
    /\ UNCHANGED <<instr_addr, took, lr_state, image, lines>>

\* exec; when it raised nothing the tick is over and tick_cpu returns true
\* (the build without DEBUG: the instruction record is left as decoded)
Exec ==
    /\ stage = "exec"
    /\ \E u \in UndefinedShift : cpu' = exec(cpu, u)
    /\ IF cpu'.exc.exception # NoException
       THEN /\ stage' = "trap"
            /\ UNCHANGED <<instr_addr, took, lr_state>>
       ELSE /\ stage' = "bus"
            /\ instr_addr' = 0
            /\ took' = NoInterrupt
            /\ lr_state' = CASE cpu.instr.exec_func \in {"instr_lrw", "instr_lrd"} -> "lr"
                              [] cpu.instr.exec_func \in {"instr_scw", "instr_scd"} -> "none"
                              [] OTHER -> lr_state
    /\ UNCHANGED <<image, lines>>

\* get_trap: handle_exception; a fatal outcome ends the run, any other
\* clears the exception slot and tick_cpu returns true
GetTrap ==
    /\ stage = "trap"
    /\ LET trapped(r) ==
              IF r.exited
              THEN /\ cpu' = r.cpu
                   /\ stage' = "exited"
                   /\ UNCHANGED <<instr_addr, took, lr_state>>
              ELSE IF r.trap = Trap_Fatal
              THEN /\ cpu' = r.cpu
                   /\ stage' = "halted"
                   /\ lr_state' = IF lr_state = "lr" THEN "lr_trap" ELSE lr_state
                   /\ UNCHANGED <<instr_addr, took>>
              ELSE /\ cpu' = [r.cpu EXCEPT !.exc.exception = NoException]
                   /\ stage' = "bus"
                   /\ instr_addr' = 0
                   /\ took' = NoInterrupt
                   /\ lr_state' = IF lr_state = "lr" THEN "lr_trap" ELSE lr_state
       IN  trapped(handle_exception(cpu, instr_addr))
    /\ UNCHANGED <<image, lines>>

Next == TickBus \/ HandleInterrupt \/ Fetch \/ Decode \/ Exec \/ GetTrap

----------------------------------------------------------------------------
(* Initial states *)

DRAM_SIZE == 16384

\* a three-level table in DRAM: the root at page 3, below it page 4 and
\* page 5; page 5 maps onto themselves the ROM page (r x), the first DRAM
\* page (r w) and the page of the root table (r only), and holds an invalid
\* entry for the page at the top of DRAM (page 6), a pointer (v alone) for
\* page 7, an entry with w and without r for page 8 and an execute-only
\* leaf for page 9.  The root maps the second gigabyte onto itself with a
\* gigapage (r w x); page 4 maps the megapage at 4 MiB onto itself (r w x)
\* and holds for the megapage at 2 MiB a leaf (r w) whose ppn is 2, that
\* is, whose ppn[0] is not 0, and for the megapage at 6 MiB a pointer to
\* page 6, the first page above DRAM, where the bus has nothing
PageTable ==
    (12288 :> 4097) @@ (12296 :> 268435471)
    @@ (16384 :> 5121) @@ (16392 :> 2055) @@ (16400 :> 1048591)
    @@ (16408 :> 6145)
    @@ (20488 :> 1035) @@ (20496 :> 2055) @@ (20504 :> 3075) @@ (20528 :> 0)
    @@ (20536 :> 3073) @@ (20544 :> 2053) @@ (20552 :> 2057)

\* satp with mode 8 and the root table at page 3
SATP_SV39 == {63} \cup ToBits(3)

\* values an uninitialised word of the hart may hold
Garbage == {0, DRAM_BASE}

\* init_cpu; reservation, exc.value and irq.value are not set by it
init_cpu(resv, excval) ==
    [xreg |-> [r \in 0 .. 31 |-> ToBits(IF r = 2 THEN DRAM_BASE + DRAM_SIZE ELSE 0)],
     pc |-> BOOT_ROM_BASE,
     mode |-> MACHINE,
     exc |-> [exception |-> NoException, value |-> excval],
     irq |-> [irq |-> NoInterrupt, value |-> 0],
     reservation |-> resv,
     instr |-> NoInstr,
     csr |-> init_csr,
     bus |-> [a \in DataAddrs |-> 0] @@ PageTable]

\* the hart at the start of a tick, with the firmware img loaded, devices
\* that raise the lines lns, in mode md and with the CSRs of cfg set
Boot(img, lns, md, cfg, resv, excval) ==
    /\ cpu = [init_cpu(resv, excval) EXCEPT
                 !.mode = md,
                 !.csr = [a \in CsrRegs |-> IF a \in DOMAIN cfg THEN cfg[a] ELSE {}]]
    /\ stage = "bus"
    /\ instr_addr = 0
    /\ took = NoInterrupt
    /\ lr_state = "none"
    /\ image = img
    /\ lines = lns

\* the encodings of the instructions the firmware images are made of: the
\* index fields of each; "undef" is a word whose opcode is past the end of
\* opcode_type
encoding ==
    [instr_lb |-> Ix32(3, 0, 0), instr_lh |-> Ix32(3, 1, 0),
     instr_lw |-> Ix32(3, 2, 0), instr_ld |-> Ix32(3, 3, 0),
     instr_lbu |-> Ix32(3, 4, 0), instr_lhu |-> Ix32(3, 5, 0),
     instr_lwu |-> Ix32(3, 6, 0), instr_addi |-> Ix32(19, 0, 0),
     instr_sw |-> Ix32(35, 2, 0), instr_sd |-> Ix32(35, 3, 0),
     instr_jalr |-> Ix32(103, 0, 0), instr_jal |-> Ix32(111, 0, 0),
     instr_ecall |-> Ix32(115, 0, 0), instr_ebreak |-> Ix32(115, 0, 0),
     instr_slli |-> Ix32(19, 1, 0), instr_srli |-> Ix32(19, 5, 0),
     instr_srai |-> Ix32(19, 5, 32),
     instr_sll |-> Ix32(51, 1, 0), instr_srl |-> Ix32(51, 5, 0),
     instr_sra |-> Ix32(51, 5, 32),
     instr_slliw |-> Ix32(27, 1, 0), instr_srliw |-> Ix32(27, 5, 0),
     instr_sraiw |-> Ix32(27, 5, 32),
     instr_sllw |-> Ix32(59, 1, 0), instr_srlw |-> Ix32(59, 5, 0),
     instr_sraw |-> Ix32(59, 5, 32),
     instr_div |-> Ix32(51, 4, 1), instr_divu |-> Ix32(51, 5, 1),
     instr_rem |-> Ix32(51, 6, 1), instr_remu |-> Ix32(51, 7, 1),
     instr_divw |-> Ix32(59, 4, 1), instr_divuw |-> Ix32(59, 5, 1),
     instr_remw |-> Ix32(59, 6, 1), instr_remuw |-> Ix32(59, 7, 1),
     instr_add |-> Ix32(51, 0, 0), instr_sub |-> Ix32(51, 0, 32),
     instr_xor |-> Ix32(51, 4, 0),
     instr_beq |-> Ix32(99, 0, 0), instr_bne |-> Ix32(99, 1, 0),
     instr_blt |-> Ix32(99, 4, 0), instr_bge |-> Ix32(99, 5, 0),
     instr_bltu |-> Ix32(99, 6, 0), instr_bgeu |-> Ix32(99, 7, 0),
     instr_cbeqz |-> Ix16(1, 6, 48, 0, 12), instr_cbnez |-> Ix16(1, 7, 56, 0, 14),
     instr_sret |-> Ix32(115, 0, 8), instr_mret |-> Ix32(115, 0, 24),
     instr_csrrw |-> Ix32(115, 1, 0), instr_csrrs |-> Ix32(115, 2, 0),
     instr_csrrc |-> Ix32(115, 3, 0), instr_csrrwi |-> Ix32(115, 5, 0),
     instr_csrrsi |-> Ix32(115, 6, 0), instr_csrrci |-> Ix32(115, 7, 0),
     instr_amoaddw |-> Ix32(47, 2, 0), instr_amoswapw |-> Ix32(47, 2, 4),
     instr_lrw |-> Ix32(47, 2, 8), instr_scw |-> Ix32(47, 2, 12),
     instr_amoxorw |-> Ix32(47, 2, 16), instr_amoorw |-> Ix32(47, 2, 32),
     instr_amoandw |-> Ix32(47, 2, 48),
     instr_amoaddd |-> Ix32(47, 3, 0), instr_amoswapd |-> Ix32(47, 3, 4),
     instr_lrd |-> Ix32(47, 3, 8), instr_scd |-> Ix32(47, 3, 12),
     instr_amoxord |-> Ix32(47, 3, 16), instr_amoord |-> Ix32(47, 3, 32),
     instr_amoandd |-> Ix32(47, 3, 48),
     instr_caddi4spn |-> Ix16(0, 0, 0, 0, 0),
     instr_clw |-> Ix16(0, 2, 16, 0, 4), instr_cld |-> Ix16(0, 3, 24, 0, 6),
     instr_clwsp |-> Ix16(2, 2, 16, 0, 4), instr_cldsp |-> Ix16(2, 3, 24, 0, 6),
     instr_cjr_cmv |-> Ix16(2, 4, 32, 0, 8),
     instr_cebreak_cjalr_cadd |-> Ix16(2, 4, 36, 0, 9),
     zero |-> Ix16(0, 0, 0, 0, 0), undef |-> Ix32(127, 0, 0)]

\* 32-bit and 16-bit instruction words
I32(kind, rd, rs1, rs2, imm) ==
    [kind |-> kind, rd |-> rd, rs1 |-> rs1, rs2 |-> rs2, imm |-> imm, len |-> 4,
     ix |-> encoding[kind]]

I16(kind, rd, rs1, rs2, imm) ==
    [kind |-> kind, rd |-> rd, rs1 |-> rs1, rs2 |-> rs2, imm |-> imm, len |-> 2,
     ix |-> encoding[kind]]

LoadKinds == {"instr_lb", "instr_lh", "instr_lw", "instr_ld", "instr_lbu",
              "instr_lhu", "instr_lwu"}

CLoadKinds == {"instr_clw", "instr_cld", "instr_clwsp", "instr_cldsp"}

LrKinds == {"instr_lrw", "instr_lrd"}

ScKinds == {"instr_scw", "instr_scd"}

AmoKinds == {"instr_amoaddw", "instr_amoswapw", "instr_amoxorw",
             "instr_amoorw", "instr_amoandw", "instr_amoaddd",
             "instr_amoswapd", "instr_amoxord", "instr_amoord",
             "instr_amoandd"}

\* x2 := the first DRAM word, the root page table (read-only under Sv39),
\* or the top of DRAM (mapped by nothing)
SetAddr == {I32("instr_addi", 2, 0, 0, DRAM_BASE),
            I32("instr_addi", 2, 0, 0, 12288),
            I32("instr_addi", 2, 0, 0, DRAM_BASE + DRAM_SIZE)}

\* loads, LR and AMOs through x2 into x3
LoadImage ==
    SetAddr
    \cup {I32(k, 3, 2, 0, 0) : k \in LoadKinds \cup LrKinds}
    \cup {I16(k, 3, 2, 0, 0) : k \in CLoadKinds}
    \cup {I32(k, 3, 2, 2, 0) : k \in AmoKinds \ {"instr_amoaddw", "instr_amoaddd"}}
    \cup {I32(k, 3, 2, 0, 0) : k \in {"instr_amoaddw", "instr_amoaddd"}}

\* vectors at the start of the ROM, page faults delegated to supervisor mode
LoadCsrs(satp) ==
    (MTVEC :> ToBits(BOOT_ROM_BASE)) @@ (STVEC :> ToBits(BOOT_ROM_BASE))
    @@ (MEDELEG :> {LoadPageFault, StoreAMOPageFault}) @@ (SATP :> satp)

\* the hart running LoadImage: in machine mode without translation, or in
\* supervisor mode under Sv39
Init ==
    \E cfg \in {<<MACHINE, {}>>, <<SUPERVISOR, SATP_SV39>>} :
        Boot(LoadImage, {}, cfg[1], LoadCsrs(cfg[2]), -1, 0)

Spec == Init /\ [][Next]_vars

\* words whose destination is x0: loads, LR, AMOs and SC through x2, a CSR
\* read of mtvec, JAL and JALR; a store that makes the loaded word non-zero;
\* ECALL and EBREAK, which trap; a word no decode table knows and the
\* all-zero word, which end the run
ZeroImage ==
    {I32("instr_addi", 2, 0, 0, DRAM_BASE), I32("instr_sd", 0, 2, 2, 0)}
    \cup {I32(k, 0, 2, 0, 0) : k \in {"instr_lw", "instr_ld", "instr_lrd"}}
    \cup {I16(k, 0, 2, 0, 0) : k \in {"instr_cld", "instr_cldsp"}}
    \cup {I32(k, 0, 2, 2, 0) : k \in {"instr_amoswapd", "instr_amoorw", "instr_scd"}}
    \cup {I32("instr_csrrs", 0, 0, 0, MTVEC),
          I32("instr_jal", 0, 0, 0, 0),
          I32("instr_jalr", 0, 2, 0, 0),
          I32("instr_ecall", 0, 0, 0, 0),
          I32("instr_ebreak", 0, 0, 1, 0),
          I32("undef", 0, 0, 0, 0),
          I16("zero", 0, 0, 0, 0)}

InitZero ==
    \E resv \in Garbage :
        Boot(ZeroImage, {}, MACHINE, LoadCsrs({}), resv, 0)

SpecZero == InitZero /\ [][Next]_vars

\* LR and SC through x2 into x3, SC storing x2; ECALL, which traps
AtomicImage ==
    {I32("instr_addi", 2, 0, 0, DRAM_BASE), I32("instr_addi", 2, 0, 0, 12288),
     I32("instr_ecall", 0, 0, 0, 0)}
    \cup {I32(k, 3, 2, 0, 0) : k \in LrKinds}
    \cup {I32(k, 3, 2, 2, 0) : k \in ScKinds}

\* as LoadCsrs, with the machine timer interrupt enabled and the ECALL of
\* supervisor mode delegated as well
AtomicCsrs(satp) ==
    (MIE :> MIP_MTIP) @@ (MSTATUS :> MSTATUS_MIE)
    @@ (MEDELEG :> {EnvironmentCallFromSMode, LoadPageFault, StoreAMOPageFault})
    @@ LoadCsrs(satp)

\* the hart running AtomicImage beside a timer that raises MTIP
InitAtomic ==
    \E cfg \in {<<MACHINE, {}>>, <<SUPERVISOR, SATP_SV39>>}, resv \in Garbage :
        Boot(AtomicImage, MIP_MTIP, cfg[1], AtomicCsrs(cfg[2]), resv, 0)

SpecAtomic == InitAtomic /\ [][Next]_vars

\* the causes the exception specifications delegate
ExcDeleg == {Breakpoint, EnvironmentCallFromUMode, EnvironmentCallFromSMode,
             InstructionPageFault, LoadPageFault, StoreAMOPageFault}

\* words that raise an exception: ECALL, EBREAK, a word no decode table
\* knows, the all-zero word, a load and a store through x2 (the top of
\* DRAM, which nothing maps); and a C.JR to an odd address above DRAM, where
\* the next fetch fails
ExcImage ==
    {I32("instr_ecall", 0, 0, 0, 0), I32("instr_ebreak", 0, 0, 1, 0),
     I32("undef", 0, 0, 0, 0), I16("zero", 0, 0, 0, 0),
     I32("instr_lw", 3, 2, 0, 0), I32("instr_sw", 0, 2, 2, 0),
     I16("instr_cld", 3, 2, 0, 0),
     I32("instr_addi", 2, 0, 0, DRAM_BASE + DRAM_SIZE + 1),
     I16("instr_cjr_cmv", 0, 2, 0, 0)}

\* the hart running ExcImage in any mode, with or without Sv39, the
\* exceptions delegated or not, the trap vectors direct or with their mode
\* bits set; the exception value starts at 0 (zeroed storage), so that what
\* tval holds later is what the code put there
InitExc ==
    \E md \in {USER, SUPERVISOR, MACHINE}, satp \in {{}, SATP_SV39},
       medeleg \in {{}, ExcDeleg}, sedeleg \in {{}, {Breakpoint}},
       tvm \in {{}, {0, 1}} :
        Boot(ExcImage, {}, md,
             (MTVEC :> ToBits(BOOT_ROM_BASE) \cup tvm)
             @@ (STVEC :> ToBits(BOOT_ROM_BASE) \cup tvm)
             @@ (MEDELEG :> medeleg) @@ (SEDELEG :> sedeleg) @@ (SATP :> satp),
             -1, 0)

SpecExc == InitExc /\ [][Next]_vars

\* status bits no trap entry is about: MPRV and SUM
StatusOther == {17, 18}

\* ECALL and EBREAK, which trap, and a word that retires
StatusImage ==
    {I32("instr_ecall", 0, 0, 0, 0), I32("instr_ebreak", 0, 0, 1, 0),
     I32("instr_addi", 3, 0, 0, 0)}

\* the hart in any mode and with any value of the IE, PIE and PP fields of
\* mstatus, beside timers that raise STIP (delegated to supervisor mode) and
\* MTIP, the exceptions delegated or not
InitStatus ==
    \E md \in {USER, SUPERVISOR, MACHINE},
       ie \in SUBSET (SSTATUS_SIE \cup MSTATUS_MIE \cup SSTATUS_SPIE \cup MSTATUS_MPIE),
       pp \in {{}, SSTATUS_SPP \cup MSTATUS_MPP},
       medeleg \in {{}, ExcDeleg} :
        Boot(StatusImage, MIP_STIP \cup MIP_MTIP, md,
             (MTVEC :> ToBits(BOOT_ROM_BASE)) @@ (STVEC :> ToBits(BOOT_ROM_BASE))
             @@ (MSTATUS :> ie \cup pp \cup StatusOther)
             @@ (MIE :> MIP_STIP \cup MIP_MTIP) @@ (MIDELEG :> MIP_STIP)
             @@ (MEDELEG :> medeleg),
             -1, 0)

SpecStatus == InitStatus /\ [][Next]_vars

\* the six interrupt bits of mip and mie
IrqBits == MIP_SSIP \cup MIP_MSIP \cup MIP_STIP \cup MIP_MTIP
           \cup MIP_SEIP \cup MIP_MEIP

\* a word that retires
IrqImage == {I32("instr_addi", 3, 0, 0, 0)}

\* the hart in any mode, with any of the six causes pending, all of them or
\* all but the external ones enabled, MIE and SIE set or not, and the causes
\* kept in machine mode, the supervisor causes delegated, or all delegated;
\* the supervisor timer delegated further to user mode or not
InitIrq ==
    \E md \in {USER, SUPERVISOR, MACHINE},
       ie \in SUBSET (SSTATUS_SIE \cup MSTATUS_MIE),
       mip \in SUBSET IrqBits,
       mie \in {IrqBits, IrqBits \ (MIP_SEIP \cup MIP_MEIP)},
       mideleg \in {{}, MIP_SSIP \cup MIP_STIP \cup MIP_SEIP, IrqBits},
       sideleg \in {{}, MIP_STIP} :
        Boot(IrqImage, {}, md,
             (MTVEC :> ToBits(BOOT_ROM_BASE)) @@ (STVEC :> ToBits(BOOT_ROM_BASE))
             @@ (MSTATUS :> ie) @@ (MIP :> mip) @@ (MIE :> mie)
             @@ (MIDELEG :> mideleg) @@ (SIDELEG :> sideleg),
             -1, 0)

SpecIrq == InitIrq /\ [][Next]_vars

\* x2 := an odd address, then a C.JR to it
VecImage == {I32("instr_addi", 2, 2, 0, 1), I16("instr_cjr_cmv", 0, 2, 0, 0)}

\* the hart in any mode with every cause enabled, the software and timer
\* causes raised by the devices at any tick, the causes kept in machine mode
\* or delegated to supervisor mode, and
\* the four settings of the low two bits of the trap vectors
InitVec ==
    \E md \in {USER, SUPERVISOR, MACHINE},
       tvm \in SUBSET {0, 1},
       mideleg \in {{}, IrqBits} :
        Boot(VecImage, MIP_SSIP \cup MIP_MSIP \cup MIP_STIP \cup MIP_MTIP, md,
             (MTVEC :> ToBits(BOOT_ROM_BASE) \cup tvm)
             @@ (STVEC :> ToBits(BOOT_ROM_BASE) \cup tvm)
             @@ (MSTATUS :> SSTATUS_SIE \cup MSTATUS_MIE)
             @@ (MIE :> IrqBits) @@ (MIDELEG :> mideleg),
             -1, 0)

SpecVec == InitVec /\ [][Next]_vars

\* a store and a load through x2, x2 := the root page table (read-only
\* under Sv39), and a C.JR to x2; x2 starts at the top of DRAM, which the
\* table does not map
MprvImage ==
    {I32("instr_addi", 2, 0, 0, 12288), I32("instr_sw", 0, 2, 2, 0),
     I32("instr_lw", 3, 2, 0, 0), I16("instr_cjr_cmv", 0, 2, 0, 0)}

\* the hart in machine mode under Sv39, with MPRV set or clear and MPP
\* user, supervisor or machine
InitMprv ==
    \E mprv \in {{}, MSTATUS_MPRV},
       mpp \in {{}, ToBits(SUPERVISOR * 2^11), MSTATUS_MPP} :
        Boot(MprvImage, {}, MACHINE,
             (MTVEC :> ToBits(BOOT_ROM_BASE)) @@ (STVEC :> ToBits(BOOT_ROM_BASE))
             @@ (MSTATUS :> mprv \cup mpp) @@ (SATP :> SATP_SV39),
             -1, 0)

SpecMprv == InitMprv /\ [][Next]_vars

\* an address in the megapage at 2 MiB, two pages above its start
MEGA_MISALIGNED == 2^21 + 2 * 2^PAGE_SHIFT

\* x2 := an address in the megapage at 2 MiB; a load, a store and a C.JR
\* through x2
SuperImage ==
    {I32("instr_addi", 2, 0, 0, MEGA_MISALIGNED), I32("instr_lw", 3, 2, 0, 0),
     I32("instr_sw", 0, 2, 2, 0), I16("instr_cjr_cmv", 0, 2, 0, 0)}

\* the hart in user or supervisor mode under Sv39, the page faults
\* delegated to supervisor mode or not
InitSuper ==
    \E md \in {USER, SUPERVISOR},
       medeleg \in {{}, {InstructionPageFault, LoadPageFault, StoreAMOPageFault}} :
        Boot(SuperImage, {}, md,
             (MTVEC :> ToBits(BOOT_ROM_BASE)) @@ (STVEC :> ToBits(BOOT_ROM_BASE))
             @@ (MEDELEG :> medeleg) @@ (SATP :> SATP_SV39),
             -1, 0)

SpecSuper == InitSuper /\ [][Next]_vars

\* the pages the table maps with 4 KiB leaves (1, 2, 3 and 9), the pages
\* whose entries stop the walk (7 and 8; page 6 is where x2 starts), the
\* megapages at 4 MiB and 6 MiB and the gigapage at 1 GiB
WalkTargets ==
    {k * 2^PAGE_SHIFT : k \in {1, 2, 3, 7, 8, 9}} \cup {4 * 2^20, 6 * 2^20, 2^30}

\* x2 := one of the targets; a load, a store and a C.JR through x2
WalkImage ==
    {I32("instr_addi", 2, 0, 0, t) : t \in WalkTargets}
    \cup {I32("instr_lw", 3, 2, 0, 0), I32("instr_sw", 0, 2, 2, 0),
          I16("instr_cjr_cmv", 0, 2, 0, 0)}

\* the hart in user or supervisor mode under Sv39, the page faults
\* delegated to supervisor mode or not
InitWalk ==
    \E md \in {USER, SUPERVISOR},
       medeleg \in {{}, {InstructionPageFault, LoadPageFault, StoreAMOPageFault}} :
        Boot(WalkImage, {}, md,
             (MTVEC :> ToBits(BOOT_ROM_BASE)) @@ (STVEC :> ToBits(BOOT_ROM_BASE))
             @@ (MEDELEG :> medeleg) @@ (SATP :> SATP_SV39),
             -1, 0)

SpecWalk == InitWalk /\ [][Next]_vars

\* a 32-bit and a 16-bit word given by their index fields, named by the
\* executor the instruction set gives them, "undef" when it gives none
W32(kind, opcode, funct3, funct7, rs2) ==
    [kind |-> kind, rd |-> 3, rs1 |-> 2, rs2 |-> rs2, imm |-> 0, len |-> 4,
     ix |-> Ix32(opcode, funct3, funct7)]

W16(kind, opcode, funct3, funct6, funct2, funct4) ==
    [kind |-> kind, rd |-> 3, rs1 |-> 2, rs2 |-> 0, imm |-> 0, len |-> 2,
     ix |-> Ix16(opcode, funct3, funct6, funct2, funct4)]

\* words of instructions: ADDI, LW, SW, JAL, ECALL, EBREAK, SRET, MRET
\* and C.JR
KnownWords ==
    {W32("instr_addi", 19, 0, 0, 0), W32("instr_lw", 3, 2, 0, 0),
     W32("instr_sw", 35, 2, 0, 2), W32("instr_jal", 111, 0, 0, 0),
     W32("instr_ecall", 115, 0, 0, 0), W32("instr_ebreak", 115, 0, 0, 1),
     W32("instr_sret", 115, 0, 8, 2), W32("instr_mret", 115, 0, 24, 2),
     W16("instr_cjr_cmv", 2, 4, 32, 0, 8)}

\* words of no instruction.  Past the end of a table: an opcode above
\* SYSTEM, a load of width 7, an OP word with funct7 33, AMOMIN.W, a
\* SYSTEM word with funct7 8 and rs2 6, a store of floating-point width 4,
\* a 16-bit word of quadrant 1 past C.ADDW.  On an empty slot: the opcode
\* of a floating-point load, a branch with funct3 2, an OP word with
\* funct7 2, an AMO with funct5 5, a SYSTEM word with funct3 4 and one with
\* funct7 8 and rs2 0, a floating-point store of width 0, the 16-bit
\* words with funct3 1 of quadrants 0 and 2
UnknownWords ==
    {W32("undef", 127, 0, 0, 0), W32("undef", 3, 7, 0, 0),
     W32("undef", 51, 0, 33, 0), W32("undef", 47, 2, 64, 0),
     W32("undef", 115, 0, 8, 6), W32("undef", 39, 4, 0, 0),
     W16("undef", 1, 4, 39, 2, 9),
     W32("undef", 7, 2, 0, 0), W32("undef", 99, 2, 0, 0),
     W32("undef", 51, 0, 2, 0), W32("undef", 47, 2, 20, 0),
     W32("undef", 115, 4, 0, 0), W32("undef", 115, 0, 8, 0),
     W32("undef", 39, 0, 0, 0),
     W16("undef", 0, 1, 8, 0, 2), W16("undef", 2, 1, 8, 0, 2)}

DecodeImage == KnownWords \cup UnknownWords

\* the hart running DecodeImage in machine or user mode
InitDecode ==
    \E md \in {USER, MACHINE} :
        Boot(DecodeImage, {}, md,
             (MTVEC :> ToBits(BOOT_ROM_BASE)) @@ (STVEC :> ToBits(BOOT_ROM_BASE)),
             -1, 0)

SpecDecode == InitDecode /\ [][Next]_vars

\* C.ADDI4SPN with nzuimm 0 and 16 into each of x8 .. x15; the word with
\* nzuimm = 0 and rd' = 0 (x8) is the all-zero word
Addi4spnImage ==
    ({I16("instr_caddi4spn", rd, 0, 0, nzuimm) :
         rd \in 8 .. 15, nzuimm \in {0, 16}} \ {I16("instr_caddi4spn", 8, 0, 0, 0)})
    \cup {I16("zero", 0, 0, 0, 0)}

\* the hart running Addi4spnImage in any mode
InitAddi4spn ==
    \E md \in {USER, SUPERVISOR, MACHINE} :
        Boot(Addi4spnImage, {}, md,
             (MTVEC :> ToBits(BOOT_ROM_BASE)) @@ (STVEC :> ToBits(BOOT_ROM_BASE)),
             -1, 0)

SpecAddi4spn == InitAddi4spn /\ [][Next]_vars

CsrKinds == {"instr_csrrw", "instr_csrrs", "instr_csrrc",
             "instr_csrrwi", "instr_csrrsi", "instr_csrrci"}

\* the six CSR instructions on instret (index 0xc02, upper two bits 11)
\* and on stvec, with rs1 = x2 (zimm = 2) and rd = x3
CsrImage == {I32(k, 3, 2, 0, a) : k \in CsrKinds, a \in {INSTRET, STVEC}}

\* the hart running CsrImage in any mode, instret 0 or 7
InitCsr ==
    \E md \in {USER, SUPERVISOR, MACHINE}, n \in {0, 7} :
        Boot(CsrImage, {}, md,
             (MTVEC :> ToBits(BOOT_ROM_BASE)) @@ (STVEC :> ToBits(BOOT_ROM_BASE))
             @@ (INSTRET :> ToBits(n)),
             -1, 0)

SpecCsr == InitCsr /\ [][Next]_vars

\* MRET, SRET and ECALL
RetImage ==
    {I32("instr_mret", 0, 0, 2, 0), I32("instr_sret", 0, 0, 2, 0),
     I32("instr_ecall", 0, 0, 0, 0)}

\* the values of mepc and sepc: the two words of the ROM and an odd address
RetTargets == {BOOT_ROM_BASE, BOOT_ROM_BASE + 4, BOOT_ROM_BASE + 5}

\* the hart in any mode, with any value of the IE, PIE and PP fields of
\* mstatus (MPP among user, supervisor and machine) and with mepc and sepc
\* among RetTargets
InitRet ==
    \E md \in {USER, SUPERVISOR, MACHINE},
       ie \in SUBSET (SSTATUS_SIE \cup MSTATUS_MIE \cup SSTATUS_SPIE
                     \cup MSTATUS_MPIE \cup SSTATUS_SPP),
       mpp \in {USER, SUPERVISOR, MACHINE},
       mepc \in RetTargets, sepc \in RetTargets :
        Boot(RetImage, {}, md,
             (MTVEC :> ToBits(BOOT_ROM_BASE)) @@ (STVEC :> ToBits(BOOT_ROM_BASE))
             @@ (MSTATUS :> ie \cup Shl(ToBits(mpp), 11))
             @@ (MEPC :> ToBits(mepc)) @@ (SEPC :> ToBits(sepc)),
             -1, 0)

SpecRet == InitRet /\ [][Next]_vars

\* Boot with some of the registers set
BootRegs(img, md, cfg, regs) ==
    /\ cpu = [init_cpu(-1, 0) EXCEPT
                 !.mode = md,
                 !.xreg = [r \in 0 .. 31 |-> IF r \in DOMAIN regs THEN regs[r] ELSE @[r]],
                 !.csr = [a \in CsrRegs |-> IF a \in DOMAIN cfg THEN cfg[a] ELSE {}]]
    /\ stage = "bus"
    /\ instr_addr = 0
    /\ took = NoInterrupt
    /\ lr_state = "none"
    /\ image = img
    /\ lines = {}

RegShiftKinds == {"instr_sll", "instr_srl", "instr_sra"}

RegShiftWKinds == {"instr_sllw", "instr_srlw", "instr_sraw"}

ImmShiftKinds == {"instr_slli", "instr_srli", "instr_srai"}

ImmShiftWKinds == {"instr_slliw", "instr_srliw", "instr_sraiw"}

\* the immediates of the shifts by a constant; the arithmetic ones carry
\* bit 10 of the word in the immediate
ShiftImms(k) ==
    IF k \in {"instr_srai", "instr_sraiw"} THEN {1024 + 1, 1024 + 31, 1024 + 63}
    ELSE {1, 31, 32, 63}

\* the twelve shifts of x1 into x3, by x2 or by a constant
ShiftImage ==
    {I32(k, 3, 1, 2, 0) : k \in RegShiftKinds \cup RegShiftWKinds}
    \cup UNION {{I32(k, 3, 1, 0, i) : i \in ShiftImms(k)} :
                   k \in ImmShiftKinds \cup ImmShiftWKinds}

\* the shifted words: 1, all ones, 0x80000000, 0x8000000000000001
ShiftValues == {{0}, WordBits, {31}, {0, 63}}

\* the counts: below 32, from 32 to 63, 64 and above, and one with bit 63
ShiftCounts == {ToBits(n) : n \in {0, 1, 31, 32, 33, 63, 64, 65, 95, 96}}
               \cup {{0, 63}}

InitShift ==
    \E x \in ShiftValues, n \in ShiftCounts :
        BootRegs(ShiftImage, MACHINE,
                 (MTVEC :> ToBits(BOOT_ROM_BASE)) @@ (STVEC :> ToBits(BOOT_ROM_BASE)),
                 (1 :> x) @@ (2 :> n))

SpecShift == InitShift /\ [][Next]_vars

QuotientKinds == {"instr_div", "instr_divu", "instr_divw", "instr_divuw"}

RemainderKinds == {"instr_rem", "instr_remu", "instr_remw", "instr_remuw"}

SignedDivKinds == {"instr_div", "instr_rem", "instr_divw", "instr_remw"}

DivWKinds == {"instr_divw", "instr_divuw", "instr_remw", "instr_remuw"}

\* the eight divisions of x1 by x2 into x3
DivImage == {I32(k, 3, 1, 2, 0) : k \in QuotientKinds \cup RemainderKinds}

\* the dividends: 7, -7, the most negative 64-bit and 32-bit numbers,
\* 0x80000000 and 0x4000000080000007
Dividends == {ToBits(7), ToBits(-7), INT64_MIN, INT32_MIN, {31}, {0, 1, 2, 31, 62}}

\* the divisors: 0, -1, 2, -2, 2^32 (whose low half is 0) and 0xffffffff
\* (whose low half is -1)
Divisors == {{}, WordBits, ToBits(2), ToBits(-2), {32}, 0 .. 31}

InitDiv ==
    \E x \in Dividends, y \in Divisors :
        BootRegs(DivImage, MACHINE,
                 (MTVEC :> ToBits(BOOT_ROM_BASE)) @@ (STVEC :> ToBits(BOOT_ROM_BASE)),
                 (1 :> x) @@ (2 :> y))

SpecDiv == InitDiv /\ [][Next]_vars

\* the first operation of each pair, of x1 and x2 into x3, and the second,
\* of x3 and x2 into x4
PairImage ==
    {I32(k, 3, 1, 2, 0) : k \in {"instr_add", "instr_sll", "instr_xor"}}
    \cup {I32(k, 4, 3, 2, 0) : k \in {"instr_sub", "instr_srl", "instr_xor"}}

\* the values of x1: 1, 6, all ones, 2^63, 2^63 + 1, 2^63 - 1 and 2^62
PairValues == {{0}, {1, 2}, WordBits, {63}, {0, 63}, 0 .. 62, {62}}

\* the operands in x2: 0, 1, 3, 62, 63, 64, -1 and 2^63
PairOperands == {ToBits(n) : n \in {0, 1, 3, 62, 63, 64, -1}} \cup {{63}}

InitPair ==
    \E x \in PairValues, y \in PairOperands :
        BootRegs(PairImage, MACHINE,
                 (MTVEC :> ToBits(BOOT_ROM_BASE)) @@ (STVEC :> ToBits(BOOT_ROM_BASE)),
                 (1 :> x) @@ (2 :> y))

SpecPair == InitPair /\ [][Next]_vars

BranchKinds == {"instr_beq", "instr_bne", "instr_blt", "instr_bge",
                "instr_bltu", "instr_bgeu"}

CBranchKinds == {"instr_cbeqz", "instr_cbnez"}

\* the bit of a CB halfword that holds each bit of the offset
CBPlace ==
    (8 :> 12) @@ (4 :> 11) @@ (3 :> 10) @@ (7 :> 6) @@ (6 :> 5) @@ (2 :> 4)
    @@ (1 :> 3) @@ (5 :> 2)

\* the halfword of C.BEQZ (funct3 = 6) or C.BNEZ (funct3 = 7) on register
\* 8 + rs1c with the given offset: quadrant 1, funct3 in bits 15:13, rs1' in
\* bits 9:7, the offset in the other bits
CBHalfword(funct3, rs1c, offset) ==
    BitsNat({0} \cup Shl(ToBits(funct3), 13) \cup Shl(ToBits(rs1c), 7)
            \cup {CBPlace[b] : b \in ToBits(offset) \cap (1 .. 8)})

\* offsets of the 32-bit branches and of the compressed ones (the latter
\* with each group of offset bits set in some of them)
BranchOffsets == {8, -4, 2048}
CBranchOffsets == {6, 170, 84, -256, -2}

\* the six branches on x1 and x2, C.BEQZ and C.BNEZ on x9
BranchImage ==
    {I32(k, 0, 1, 2, o) : k \in BranchKinds, o \in BranchOffsets}
    \cup {I16("instr_cbeqz", 0, 9, 0, CBHalfword(6, 1, o)) : o \in CBranchOffsets}
    \cup {I16("instr_cbnez", 0, 9, 0, CBHalfword(7, 1, o)) : o \in CBranchOffsets}

\* the most negative number, -1, 0, 1 and the greatest number, in the order
\* of int64_t, and the same values in the order of uint64_t
SignedOrder == <<{63}, WordBits, {}, {0}, 0 .. 62>>
UnsignedOrder == <<{}, {0}, 0 .. 62, {63}, WordBits>>

InitBranch ==
    \E i \in 1 .. 5, j \in 1 .. 5 :
        BootRegs(BranchImage, MACHINE,
                 (MTVEC :> ToBits(BOOT_ROM_BASE)) @@ (STVEC :> ToBits(BOOT_ROM_BASE)),
                 (1 :> SignedOrder[i]) @@ (2 :> SignedOrder[j])
                 @@ (9 :> SignedOrder[i]))

SpecBranch == InitBranch /\ [][Next]_vars

\* JALR with and without a link register, with rd = rs1 and with odd and even
\* immediates; C.JR and C.JALR on x1 and on x5; C.EBREAK
JumpImage ==
    {I32("instr_jalr", rd, 1, 0, imm) : rd \in {0, 1, 3}, imm \in {1, -1, 4}}
    \cup {I16("instr_cjr_cmv", rs1, rs1, 0, 0) : rs1 \in {1, 5}}
    \cup {I16("instr_cebreak_cjalr_cadd", rs1, rs1, 0, 0) : rs1 \in {0, 1, 5}}

\* even and odd addresses of the ROM
JumpTargets == {BOOT_ROM_BASE, BOOT_ROM_BASE + 1, BOOT_ROM_BASE + 7}

InitJump ==
    \E a \in JumpTargets, b \in JumpTargets :
        BootRegs(JumpImage, MACHINE,
                 (MTVEC :> ToBits(BOOT_ROM_BASE)) @@ (STVEC :> ToBits(BOOT_ROM_BASE)),
                 (1 :> ToBits(a)) @@ (5 :> ToBits(b)))

SpecJump == InitJump /\ [][Next]_vars

----------------------------------------------------------------------------
(* Claims *)

LoadClass == LoadKinds \cup CLoadKinds \cup LrKinds \cup AmoKinds

\* the address a load-class executor accesses
EffAddr(c) ==
    IF c.instr.exec_func \in {"instr_clwsp", "instr_cldsp"}
    THEN ToInt(c.xreg[2]) + c.instr.imm
    ELSE IF c.instr.exec_func \in LoadKinds \cup {"instr_clw", "instr_cld",
                                                  "instr_sw", "instr_sd"}
    THEN ToInt(c.xreg[c.instr.rs1]) + c.instr.imm
    ELSE ToInt(c.xreg[c.instr.rs1])

\* translation or the bus raises an exception for the access of the executor
AccessFaults(c) ==
    \/ read_cpu(c, EffAddr(c), 64).exc.exception # NoException
    \/ /\ c.instr.exec_func \in AmoKinds
       /\ ~write_cpu(c, EffAddr(c), 64, 0).ok

\* C2: a load-class executor (load, compressed load, LR, AMO) whose address
\* translation or bus access raises an exception leaves xreg[rd] as it was
\* and returns with the exception pending, so that the trap step is next.
C2_FaultingLoadKeepsRd ==
    [][(stage = "exec" /\ cpu.instr.exec_func \in LoadClass /\ AccessFaults(cpu))
        => /\ ToInt(cpu'.xreg[cpu.instr.rd]) = ToInt(cpu.xreg[cpu.instr.rd])
           /\ cpu'.exc.exception # NoException
           /\ stage' = "trap"]_vars

\* a load into x3 took a page fault while x3 held a loaded, non-zero word
C2_Witness ==
    /\ stage = "trap"
    /\ cpu.instr.exec_func \in LoadClass
    /\ cpu.instr.rd = 3 /\ ToInt(cpu.xreg[3]) # 0
    /\ cpu.exc.exception = LoadPageFault

\* C3: whenever a call of tick_cpu has returned (the next tick is about to
\* start, or the run has ended on a fatal trap or on exit), xreg[0] is 0,
\* whatever the tick did: a load, LR, AMO, SC, CSR read, JAL or JALR with
\* rd = 0, a failed fetch or decode, or a trap.
C3_X0IsZeroAtTickEnd ==
    stage \in {"bus", "halted", "exited"} => ToInt(cpu.xreg[0]) = 0

\* a tick that ran JAL x0 is over: the link address went to x0, which reads 0
C3_Witness ==
    /\ stage = "bus"
    /\ cpu.instr.exec_func = "instr_jal" /\ cpu.instr.rd = 0
    /\ ToInt(cpu.xreg[0]) = 0

\* C1: once a trap (an exception or an interrupt) was entered after an LR
\* recorded the reservation, the next SC returns 1 in rd and leaves memory
\* as it was, whatever its address.
C1_ScAfterTrapFails ==
    [][(stage = "exec" /\ cpu.instr.exec_func \in ScKinds /\ lr_state = "lr_trap")
        => /\ ToInt(cpu'.xreg[cpu.instr.rd]) = 1
           /\ cpu'.bus = cpu.bus]_vars

\* what SC does to memory when it stores
ScStores(c) ==
    write_cpu(c, ToInt(c.xreg[c.instr.rs1]),
              IF c.instr.exec_func = "instr_scw" THEN 32 ELSE 64,
              ToInt(c.xreg[c.instr.rs2]))

\* C4: SC stores rs2 and sets rd = 0 when the reservation equals the address
\* in rs1 (and the store raises nothing), sets rd = 1 and writes nothing
\* when it differs, and in every case, a store that raises an exception
\* included, leaves the reservation invalid.
C4_ScContract ==
    [][(stage = "exec" /\ cpu.instr.exec_func \in ScKinds /\ cpu.instr.rd # 0)
        => LET hit == cpu.reservation = ToInt(cpu.xreg[cpu.instr.rs1])
               w == ScStores(cpu)
           IN  /\ (hit /\ w.ok) => (ToInt(cpu'.xreg[cpu.instr.rd]) = 0 /\ cpu'.bus = w.mem)
               /\ ~hit => (ToInt(cpu'.xreg[cpu.instr.rd]) = 1 /\ cpu'.bus = cpu.bus)
               /\ cpu'.reservation = -1]_vars

\* the part of C4 the code keeps: the outcome of an SC whose store raises
\* nothing, and the reservation after it
C4_ScWithoutFault ==
    [][(stage = "exec" /\ cpu.instr.exec_func \in ScKinds /\ cpu.instr.rd # 0)
        => LET hit == cpu.reservation = ToInt(cpu.xreg[cpu.instr.rs1])
               w == ScStores(cpu)
           IN  /\ (hit /\ w.ok) => /\ ToInt(cpu'.xreg[cpu.instr.rd]) = 0
                                    /\ cpu'.bus = w.mem
                                    /\ cpu'.reservation = -1
               /\ ~hit => /\ ToInt(cpu'.xreg[cpu.instr.rd]) = 1
                          /\ cpu'.bus = cpu.bus
                          /\ cpu'.reservation = -1]_vars

\* the exception of the trap step is entered, not answered by exit(1)
ExceptionEntry == stage = "trap" /\ stage' # "exited"

NewTval == cpu'.csr[IF cpu'.mode = SUPERVISOR THEN STVAL ELSE MTVAL]

PageFaults == {InstructionPageFault, LoadPageFault, StoreAMOPageFault}

\* the virtual address a page fault is about: the pc of a fetch, the
\* effective address of a load or store
FaultVa ==
    IF cpu.exc.exception = InstructionPageFault THEN instr_addr ELSE EffAddr(cpu)

\* C7: on exception entry the tval of the target mode holds the faulting
\* virtual address for a page fault and zero for every other exception.
C7_TvalByKind ==
    [][ExceptionEntry
        => NewTval = IF cpu.exc.exception \in PageFaults
                     THEN ToBits(FaultVa) ELSE {}]_vars

\* the part of C7 the code keeps: the tval of a page fault
C7_TvalOfPageFault ==
    [][(ExceptionEntry /\ cpu.exc.exception \in PageFaults)
        => NewTval = ToBits(FaultVa)]_vars

\* C8: the pc the interrupt poll left is the pc the fetch starts from, and
\* the epc written at exception entry is that pc with bit 0 cleared, for an
\* exception of fetch, decode or execute alike; the pc after the trap step
\* is xtvec & ~3.
C8_EpcAndVector ==
    [][/\ stage = "fetch" => instr_addr = cpu.pc
       /\ ExceptionEntry
          => LET s == cpu'.mode = SUPERVISOR IN
             /\ cpu'.csr[IF s THEN SEPC ELSE MEPC] = ToBits(instr_addr) \ {0}
             /\ ToBits(cpu'.pc) = cpu.csr[IF s THEN STVEC ELSE MTVEC] \ {0, 1}]_vars

\* a fetch at an odd pc failed and was entered through a vector whose mode
\* bits are set: the epc is the even address below, the pc the vector base
C8_Witness ==
    /\ stage = "bus"
    /\ cpu.csr[SCAUSE] = ToBits(InstructionPageFault)
    /\ cpu.csr[STVAL] = ToBits(DRAM_BASE + DRAM_SIZE + 1)
    /\ cpu.csr[SEPC] = ToBits(DRAM_BASE + DRAM_SIZE)
    /\ cpu.csr[STVEC] = ToBits(BOOT_ROM_BASE) \cup {0, 1}
    /\ cpu.pc = BOOT_ROM_BASE

\* an interrupt was taken by the poll
InterruptEntry == stage = "irq" /\ took' # NoInterrupt

\* C6: a trap entry (exception or interrupt) from mode p ends in mode T,
\* supervisor or machine; T's PIE bit is the old IE bit of T, T's IE bit is
\* 0, T's PP field holds p (MPP = p; SPP = 0 iff p is user), and every
\* other bit of mstatus is as it was.
C6_StatusOnTrapEntry ==
    [][(ExceptionEntry \/ InterruptEntry)
        => LET p == cpu.mode
               old == cpu.csr[MSTATUS]
               new == cpu'.csr[MSTATUS]
           IN  \/ /\ cpu'.mode = MACHINE
                  /\ (7 \in new) = (3 \in old)
                  /\ 3 \notin new
                  /\ new \cap {11, 12} = {11 + b : b \in ToBits(p)}
                  /\ new \ {3, 7, 11, 12} = old \ {3, 7, 11, 12}
               \/ /\ cpu'.mode = SUPERVISOR
                  /\ (5 \in new) = (1 \in old)
                  /\ 1 \notin new
                  /\ (8 \in new) = (p # USER)
                  /\ new \ {1, 5, 8} = old \ {1, 5, 8}]_vars

\* an EBREAK, delegated, was entered in supervisor mode from a mode above
\* user while SIE was set: SPIE took SIE, SIE is 0, SPP is 1, and the
\* machine fields, MPRV and SUM are as they were
C6_Witness ==
    /\ stage = "bus"
    /\ cpu.mode = SUPERVISOR
    /\ cpu.csr[SCAUSE] = ToBits(Breakpoint)
    /\ cpu.csr[MSTATUS] = {3, 5, 7, 8, 11, 12, 17, 18}

\* the causes in the order of their priority: machine external, software,
\* timer, then supervisor external, software, timer
Priority == <<11, 3, 7, 9, 1, 5>>

\* the mode mideleg and sideleg route a cause to
Dest(cause) ==
    IF cause \notin cpu.csr[MIDELEG] THEN MACHINE
    ELSE IF cause \notin cpu.csr[SIDELEG] THEN SUPERVISOR
    ELSE USER

PendingEnabled(cause) == cause \in cpu.csr[MIP] /\ cause \in cpu.csr[MIE]

\* the destination is above the current mode, or is the current mode with
\* its global enable bit set
PassesGate(cause) ==
    \/ Dest(cause) > cpu.mode
    \/ Dest(cause) = cpu.mode /\ cpu.mode = MACHINE /\ 3 \in cpu.csr[MSTATUS]
    \/ Dest(cause) = cpu.mode /\ cpu.mode = SUPERVISOR /\ 1 \in cpu.csr[MSTATUS]

\* no cause ahead of the k-th is taken
Examined(k) ==
    \A j \in 1 .. k - 1 : ~(PendingEnabled(Priority[j]) /\ PassesGate(Priority[j]))

\* the interrupt poll of a tick that returns to tick_cpu
Poll == stage = "irq" /\ stage' # "exited"

\* C9: in the poll, a cause that is pending, enabled and examined is taken
\* iff its destination is above the current mode, or equals it with the
\* global enable bit of that mode set; with the destination below the
\* current mode it is not taken and its mip bit stays set.
C9_InterruptGate ==
    [][Poll => \A k \in 1 .. 6 :
          LET cause == Priority[k] IN
          (PendingEnabled(cause) /\ Examined(k))
              => /\ (took' = cause) = PassesGate(cause)
                 /\ Dest(cause) < cpu.mode
                       => (took' # cause /\ cause \in cpu'.csr[MIP])]_vars

\* the supervisor timer interrupt, delegated to supervisor mode, was taken
\* there from supervisor mode (SPP = 1) with SIE set (SPIE = 1)
C9_Witness ==
    /\ stage = "fetch"
    /\ took = SupervisorTimerInterrupt
    /\ cpu.mode = SUPERVISOR
    /\ {5, 8} \subseteq cpu.csr[MSTATUS]
    /\ cpu.csr[SCAUSE] = {63} \cup ToBits(SupervisorTimerInterrupt)

\* the positions of the causes that are pending, enabled and pass the gate
Takeable == {k \in 1 .. 6 : PendingEnabled(Priority[k]) /\ PassesGate(Priority[k])}

\* C10: when one or several causes are pending, enabled and pass the gate,
\* the poll takes the first of them in the order of priority and only it:
\* its mip bit is cleared and every other mip bit is as it was.
C10_FirstInOrderOnly ==
    [][(Poll /\ Takeable # {})
        => LET first == CHOOSE k \in Takeable : \A j \in Takeable : k <= j IN
           /\ took' = Priority[first]
           /\ cpu'.csr[MIP] = cpu.csr[MIP] \ {Priority[first]}
           /\ cpu'.csr[IF cpu'.mode = SUPERVISOR THEN SCAUSE ELSE MCAUSE]
                 = {63} \cup ToBits(Priority[first])]_vars

\* the machine external interrupt was taken while the machine software and
\* timer interrupts, kept in machine mode as well, were pending and enabled:
\* their mip bits are still set
C10_Witness ==
    /\ stage = "fetch"
    /\ took = MachineExternalInterrupt
    /\ cpu.csr[MIDELEG] = {}
    /\ {3, 7} \subseteq cpu.csr[MIP] \cap cpu.csr[MIE]
    /\ 11 \notin cpu.csr[MIP]


\* C11: an interrupt of cause c entered in mode T, supervisor or machine,
\* leaves xcause = 2^63 + c, the pc at (xtvec & ~3) + 4 * c when bit 0 of
\* xtvec is set and at xtvec & ~3 otherwise, and xepc = the pc held before
\* the entry with bit 0 cleared.
C11_InterruptEntryState ==
    [][InterruptEntry
        => LET s == cpu'.mode = SUPERVISOR
               xtvec == cpu.csr[IF s THEN STVEC ELSE MTVEC]
           IN  /\ cpu'.mode \in {SUPERVISOR, MACHINE}
               /\ cpu'.csr[IF s THEN SCAUSE ELSE MCAUSE] = {63} \cup ToBits(took')
               /\ cpu'.pc = ToInt(xtvec \ {0, 1})
                             + (IF 0 \in xtvec THEN 4 * took' ELSE 0)
               /\ cpu'.csr[IF s THEN SEPC ELSE MEPC] = ToBits(cpu.pc) \ {0}]_vars

\* the machine timer interrupt was taken in vectored mode while the pc was
\* the odd address a C.JR had left: the pc is base + 28 and mepc the even
\* address below the old pc
C11_Witness ==
    /\ stage = "fetch"
    /\ took = MachineTimerInterrupt
    /\ cpu.csr[MTVEC] = ToBits(BOOT_ROM_BASE) \cup {0}
    /\ cpu.pc = BOOT_ROM_BASE + 28
    /\ cpu.csr[MEPC] = ToBits(DRAM_BASE + DRAM_SIZE)
    /\ cpu.csr[MCAUSE] = {63} \cup ToBits(MachineTimerInterrupt)


FatalKinds == {InstructionAddressMisaligned, LoadAddressMisaligned,
               StoreAMOAddressMisaligned, InstructionAccessFault,
               LoadAccessFault, StoreAMOAccessFault, IllegalInstruction}

ContinuingKinds == {Breakpoint, EnvironmentCallFromUMode,
                    EnvironmentCallFromSMode, EnvironmentCallFromMMode,
                    InstructionPageFault, LoadPageFault, StoreAMOPageFault}

\* C12: the tick that takes an exception returns false (the hart halts) iff
\* the exception is a misaligned-address fault, an access fault or
\* IllegalInstruction; for Breakpoint, the environment calls and the page
\* faults the tick returns true with the exception slot back to NoException;
\* and no tick returns false without an exception taken.
C12_FatalHalts ==
    [][/\ ExceptionEntry
          => /\ (stage' = "halted") = (cpu.exc.exception \in FatalKinds)
             /\ cpu.exc.exception \in ContinuingKinds
                   => (stage' = "bus" /\ cpu'.exc.exception = NoException)
       /\ stage' = "halted" => stage \in {"trap", "halted"}]_vars

\* a delegated EBREAK was taken in supervisor mode and the run went on; a
\* later store off the memory map halted the hart in machine mode
C12_Witness ==
    /\ stage = "halted"
    /\ cpu.exc.exception = StoreAMOAccessFault
    /\ cpu.csr[MCAUSE] = ToBits(StoreAMOAccessFault)
    /\ cpu.csr[SCAUSE] = ToBits(Breakpoint)


\* C13: the exception slot is NoException whenever fetch starts (the tick
\* begins at the bus step, so fetch is always entered by a step); once
\* fetch or decode has set the exception slot the tick goes to the
\* trap step and to no later stage, and it goes there only then; fetch and
\* decode write no register, memory word or CSR; execute runs only after a
\* decode that left the slot clean, and never after the trap step.
C13_FailedStageEndsTick ==
    [][/\ stage' = "fetch" => cpu'.exc.exception = NoException
       /\ stage \in {"fetch", "decode"}
          => /\ (cpu'.exc.exception # NoException) = (stage' = "trap")
             /\ stage' = (IF cpu'.exc.exception # NoException THEN "trap"
                          ELSE IF stage = "fetch" THEN "decode" ELSE "exec")
             /\ cpu'.xreg = cpu.xreg
             /\ cpu'.bus = cpu.bus
             /\ cpu'.csr = cpu.csr
       /\ stage = "trap" => stage' \in {"trap", "bus", "halted", "exited"}
       /\ (stage' = "exec" /\ stage # "exec")
          => (stage = "decode" /\ cpu.exc.exception = NoException
              /\ cpu'.exc.exception = NoException)]_vars

\* a word no decode table knows was fetched after an ADDI had retired, and
\* decode failed: the tick stands at the trap step with the executor of the
\* ADDI still bound and the registers as the ADDI left them
C13_Witness ==
    /\ stage = "trap"
    /\ cpu.exc.exception = IllegalInstruction
    /\ cpu.instr.instr.kind = "undef"
    /\ cpu.instr.exec_func = "instr_addi"
    /\ ToInt(cpu.xreg[2]) = DRAM_BASE + DRAM_SIZE + 1


\* the exception the bus raises for an access at a, or NoException
BusExc(c, a, access) ==
    IF a \in DOMAIN c.bus \/ (access = Access_Instr /\ InRom(a)) THEN NoException
    ELSE IF access = Access_Store THEN StoreAMOAccessFault
    ELSE LoadAccessFault

\* the exception of an access at a that goes through the Sv39 walk
WalkedExc(c, a, access) ==
    LET t == addr_translate(c.csr, SUPERVISOR, c.bus, c.exc, a, access) IN
    IF t.exc.exception # NoException THEN t.exc.exception
    ELSE BusExc(c, t.addr, access)

\* C14: in machine mode under Sv39 a fetch is never translated, and a load
\* or store is translated iff MPRV = 1 and MPP is not machine: the access
\* ends as the walk of its address ends in that case, and as the bus
\* answers at the address itself otherwise, with MPRV = 1 and MPP =
\* machine in particular.
C14_MachineTranslation ==
    [][(cpu.mode = MACHINE /\ 63 \in cpu.csr[SATP])
        => /\ stage = "fetch"
                 => cpu'.exc.exception \in
                        {BusExc(cpu, cpu.pc, Access_Instr), IllegalInstruction}
           /\ (stage = "exec" /\ cpu.instr.exec_func \in {"instr_lw", "instr_sw"})
                 => LET access == IF cpu.instr.exec_func = "instr_sw"
                                  THEN Access_Store ELSE Access_Load
                        translated ==
                            /\ 17 \in cpu.csr[MSTATUS]
                            /\ cpu.csr[MSTATUS] \cap {11, 12} # {11, 12}
                    IN  cpu'.exc.exception =
                            IF translated THEN WalkedExc(cpu, EffAddr(cpu), access)
                            ELSE BusExc(cpu, EffAddr(cpu), access)]_vars

\* C14, the part the code keeps: fetches are not translated; with MPRV
\* clear loads and stores are not translated; with MPRV set and MPP user or
\* supervisor they are.
C14_WithoutMprvAndMachine ==
    [][(cpu.mode = MACHINE /\ 63 \in cpu.csr[SATP])
        => /\ stage = "fetch"
                 => cpu'.exc.exception \in
                        {BusExc(cpu, cpu.pc, Access_Instr), IllegalInstruction}
           /\ (stage = "exec" /\ cpu.instr.exec_func \in {"instr_lw", "instr_sw"}
               /\ ~(17 \in cpu.csr[MSTATUS] /\ {11, 12} \subseteq cpu.csr[MSTATUS]))
                 => LET access == IF cpu.instr.exec_func = "instr_sw"
                                  THEN Access_Store ELSE Access_Load
                    IN  cpu'.exc.exception =
                            IF 17 \in cpu.csr[MSTATUS]
                            THEN WalkedExc(cpu, EffAddr(cpu), access)
                            ELSE BusExc(cpu, EffAddr(cpu), access)]_vars


\* the walk of the Sv39 table for the address va, from the root
WalkOf(c, va) ==
    sv39_walk(c.bus, c.exc,
              [k \in 0 .. 2 |-> Field(va, PAGE_SHIFT + 9 * k, 9)],
              BitsNat(c.csr[SATP] \cap SATP_PPN) * 2^PAGE_SHIFT, LEVELS - 1)

\* the walk for va ends at a leaf above level 0 whose low ppn chunks are
\* not all 0
MisalignedLeaf(c, va) ==
    LET wk == WalkOf(c, va) IN
    /\ wk.res = "leaf"
    /\ wk.i > 0
    /\ wk.pte.ppn % 2^(9 * wk.i) # 0

\* the access the step at hand makes under translation: its address and
\* type, or NoAccess
NoAccess == [va |-> -1, access |-> "none"]

AccessOf ==
    IF cpu.mode = MACHINE \/ 63 \notin cpu.csr[SATP] THEN NoAccess
    ELSE IF stage = "fetch" THEN [va |-> cpu.pc, access |-> Access_Instr]
    ELSE IF stage = "exec" /\ cpu.instr.exec_func \in {"instr_lw", "instr_sw"}
    THEN [va |-> EffAddr(cpu),
          access |-> IF cpu.instr.exec_func = "instr_sw"
                     THEN Access_Store ELSE Access_Load]
    ELSE NoAccess

PageFaultOf(access) ==
    CASE access = Access_Instr -> InstructionPageFault
      [] access = Access_Load -> LoadPageFault
      [] access = Access_Store -> StoreAMOPageFault

\* C15: an access whose walk ends at a leaf at level i > 0 with a low ppn
\* chunk (ppn[i-1 .. 0]) that is not 0 fails with the page fault of the
\* access type and value = the virtual address.
C15_MisalignedSuperpageFaults ==
    [][(AccessOf # NoAccess /\ MisalignedLeaf(cpu, AccessOf.va))
        => cpu'.exc = [exception |-> PageFaultOf(AccessOf.access),
                       value |-> AccessOf.va]]_vars


\* the walk ended at a valid leaf, at a level that exists, whose permission
\* bit for the access is set
GoodLeaf(wk, access) ==
    /\ wk.res = "leaf"
    /\ wk.i >= 0
    /\ wk.pte.v = 1
    /\ ~(wk.pte.r = 0 /\ wk.pte.w = 1)
    /\ CASE access = Access_Instr -> wk.pte.x = 1
         [] access = Access_Load -> wk.pte.r = 1
         [] access = Access_Store -> wk.pte.w = 1

\* C16 as stated: under translation an access gets a physical address (the
\* step ends with no page fault in the slot) only if its walk reaches a
\* valid leaf whose permission bit matches the access; after every other
\* walk the slot holds the page fault of the access type with value = the
\* virtual address.
C16_WalkOutcomes ==
    [][AccessOf # NoAccess
        => IF GoodLeaf(WalkOf(cpu, AccessOf.va), AccessOf.access)
           THEN cpu'.exc.exception \notin PageFaults
           ELSE cpu'.exc = [exception |-> PageFaultOf(AccessOf.access),
                            value |-> AccessOf.va]]_vars

\* C16, the part the code keeps: as above for every walk whose PTE reads
\* the bus answers; a walk that reads a PTE where the bus has nothing ends
\* with the bus's LoadAccessFault in the slot, for a load, a store and a
\* fetch alike, and the slot's value as it was.
C16_WalkOutcomesReadable ==
    [][AccessOf # NoAccess
        => IF GoodLeaf(WalkOf(cpu, AccessOf.va), AccessOf.access)
           THEN cpu'.exc.exception \notin PageFaults
           ELSE IF WalkOf(cpu, AccessOf.va).res = "bus"
           THEN cpu'.exc = [exception |-> LoadAccessFault, value |-> cpu.exc.value]
           ELSE cpu'.exc = [exception |-> PageFaultOf(AccessOf.access),
                            value |-> AccessOf.va]]_vars


\* the ranges the table maps onto themselves, each with the access types
\* its leaf permits: the ROM page, the first DRAM page, the page of the
\* root table, the megapage at 4 MiB and the gigapage at 1 GiB
IdentityRanges ==
    {[base |-> 2^PAGE_SHIFT, size |-> 2^PAGE_SHIFT,
      access |-> {Access_Instr, Access_Load}],
     [base |-> 2 * 2^PAGE_SHIFT, size |-> 2^PAGE_SHIFT,
      access |-> {Access_Load, Access_Store}],
     [base |-> 3 * 2^PAGE_SHIFT, size |-> 2^PAGE_SHIFT,
      access |-> {Access_Load}],
     [base |-> 4 * 2^20, size |-> 2^21,
      access |-> {Access_Instr, Access_Load, Access_Store}],
     [base |-> 2^30, size |-> 2^30,
      access |-> {Access_Instr, Access_Load, Access_Store}]}

\* offsets into a range: its ends, and offsets with every chunk of the
\* page number and the page offset different from 0
OffsetsOf(size) ==
    {o \in {0, 5 * 2^PAGE_SHIFT + 3, 3 * 2^21 + 7 * 2^PAGE_SHIFT + 1, size - 1} :
        o < size}

\* C17: when the hart is about to fetch outside machine mode under Sv39
\* (the exception slot is clean then, and the table and the CSRs stay as
\* they are until the instruction's own access), for every address of a
\* range the table maps onto itself and every access type the leaf
\* permits, addr_translate returns the address itself and leaves the
\* exception slot as it was.
C17_IdentityRoundTrip ==
    (/\ stage = "fetch"
     /\ cpu.mode # MACHINE
     /\ 63 \in cpu.csr[SATP]
     /\ cpu.exc.exception = NoException)
        => \A rg \in IdentityRanges : \A o \in OffsetsOf(rg.size) :
               \A access \in rg.access :
                   addr_translate(cpu.csr, cpu.mode, cpu.bus, cpu.exc,
                                  rg.base + o, access)
                       = [addr |-> rg.base + o, exc |-> cpu.exc]

\* a store through x2 = the first DRAM page has retired under translation:
\* the word at that very address holds the stored value
C17_Witness ==
    /\ stage = "bus"
    /\ cpu.mode = SUPERVISOR
    /\ 63 \in cpu.csr[SATP]
    /\ cpu.instr.exec_func = "instr_sw"
    /\ ToInt(cpu.xreg[2]) = DRAM_BASE
    /\ cpu.bus[DRAM_BASE] = DRAM_BASE
    /\ cpu.exc.exception = NoException


\* the words that differ from w in one index field, over the whole range
\* of the field
Variants(w) ==
    {[w EXCEPT !.ix.opcode = v] : v \in 0 .. (IF w.len = 2 THEN 2 ELSE 127)}
    \cup {[w EXCEPT !.ix.funct3 = v, !.ix.width = v] : v \in 0 .. 7}
    \cup {[w EXCEPT !.ix.funct7 = v] : v \in 0 .. 127}
    \cup {[w EXCEPT !.ix.funct6 = v] : v \in 0 .. 63}
    \cup {[w EXCEPT !.ix.funct2 = v] : v \in 0 .. 3}
    \cup {[w EXCEPT !.ix.funct4 = v] : v \in 0 .. 15}
    \cup {[w EXCEPT !.rs2 = v] : v \in 0 .. 31}

\* C18: a decode step either hands the word to exec with an executor bound
\* (the one of the word's instruction), the word in the record and the
\* exception slot clean, or goes to the trap step with IllegalInstruction;
\* it does the second for every word whose index runs past the end of a
\* table or meets an empty slot, at any level.  For the fetched word and
\* every word one index field away from it, the descent either succeeds
\* with an executor or fails with none.
C18_DecodeBindsOrRaises ==
    [][stage = "decode"
        => /\ IF cpu.instr.instr.kind = "undef"
              THEN /\ stage' = "trap"
                   /\ cpu'.exc.exception = IllegalInstruction
              ELSE /\ stage' = "exec"
                   /\ cpu'.instr.exec_func = cpu.instr.instr.kind
                   /\ cpu'.instr.instr = cpu.instr.instr
                   /\ cpu'.exc.exception = NoException
           /\ \A w \in Variants(cpu.instr.instr) :
                  __decode(w, "opcode_type").ret
                      = (__decode(w, "opcode_type").exec_func # "NULL")]_vars

\* the SYSTEM word with funct7 8 and rs2 6, which runs past the end of the
\* fourth table of its descent, has been refused
C18_Witness ==
    /\ stage = "trap"
    /\ cpu.exc.exception = IllegalInstruction
    /\ cpu.instr.instr = W32("undef", 115, 0, 8, 6)


\* C19: the exec step of a C.ADDI4SPN whose immediate is 0 raises
\* IllegalInstruction and writes no register, whatever its rd' (the word
\* with rd' = 0 is the all-zero word, which fetch refuses).
C19_ZeroImmediateIsIllegal ==
    [][(/\ stage = "exec"
        /\ cpu.instr.exec_func = "instr_caddi4spn"
        /\ cpu.instr.imm = 0)
        => /\ cpu'.exc.exception = IllegalInstruction
           /\ cpu'.xreg = cpu.xreg]_vars

\* C19, the part the code keeps: a C.ADDI4SPN whose immediate is 0 writes
\* no register.
C19_ZeroImmediateWritesNothing ==
    [][(/\ stage = "exec"
        /\ cpu.instr.exec_func = "instr_caddi4spn"
        /\ cpu.instr.imm = 0)
        => cpu'.xreg = cpu.xreg]_vars


\* C20: the exec step of a CSR instruction with a source operand (rs1 or
\* zimm) other than 0 on a CSR whose index has 11 in its upper two bits,
\* outside machine mode, raises IllegalInstruction and leaves the CSRs as
\* they were.
C20_ReadOnlyCsrWriteIsIllegal ==
    [][(/\ stage = "exec"
        /\ cpu.instr.exec_func \in CsrKinds
        /\ cpu.instr.rs1 # 0
        /\ cpu.instr.imm \div 2^10 = 3
        /\ cpu.mode # MACHINE)
        => /\ cpu'.exc.exception = IllegalInstruction
           /\ cpu'.csr = cpu.csr]_vars


\* C21: MRET leaves PC = mepc, the mode = the old MPP, MIE = the old MPIE,
\* MPIE = 1 and MPP = 0; SRET leaves PC = sepc, the mode user if the old
\* SPP was 0 and supervisor otherwise, SIE = the old SPIE, SPIE = 1 and
\* SPP = 0
C21_XretRestores ==
    [][stage = "exec" =>
         LET old == cpu.csr[MSTATUS]
             new == cpu'.csr[MSTATUS]
         IN  /\ cpu.instr.exec_func = "instr_mret" =>
                   /\ cpu'.pc = ToInt(cpu.csr[MEPC])
                   /\ cpu'.mode = BitsNat(Shr(old \cap {11, 12}, 11))
                   /\ 3 \in new <=> 7 \in old
                   /\ 7 \in new
                   /\ new \cap {11, 12} = {}
             /\ cpu.instr.exec_func = "instr_sret" =>
                   /\ cpu'.pc = ToInt(cpu.csr[SEPC])
                   /\ cpu'.mode = (IF 8 \in old THEN SUPERVISOR ELSE USER)
                   /\ 1 \in new <=> 5 \in old
                   /\ 5 \in new
                   /\ 8 \notin new]_vars

\* an MRET has returned to supervisor mode with MIE set from MPIE
C21_Witness ==
    /\ stage = "bus"
    /\ cpu.instr.exec_func = "instr_mret"
    /\ cpu.mode = SUPERVISOR
    /\ cpu.pc = ToInt(cpu.csr[MEPC])
    /\ {3, 7} \subseteq cpu.csr[MSTATUS]
    /\ cpu.csr[MSTATUS] \cap {11, 12} = {}


\* C22: a tick holds one event: in a tick whose interrupt poll entered a
\* trap handler no executor runs and handle_exception enters no second
\* handler
C22_OneEventPerTick ==
    [][took # NoInterrupt => stage \notin {"exec", "trap"}]_vars


\* the count a shift executor is given: rs2, or the immediate
ShiftCount(c) ==
    IF c.instr.exec_func \in RegShiftKinds \cup RegShiftWKinds
    THEN c.xreg[c.instr.rs2] ELSE ToBits(c.instr.imm)

\* the low size bits of a word, read as a signed number of that size
SignExtendBits(w, size) ==
    (w \cap (0 .. size - 1)) \cup (IF size - 1 \in w THEN size .. 63 ELSE {})

\* the shift of x by k < 64 (k < 32 for the W forms)
ShiftBy(f, x, k) ==
    CASE f \in {"instr_sll", "instr_slli"} -> Shl(x, k)
      [] f \in {"instr_srl", "instr_srli"} -> Shr(x, k)
      [] f \in {"instr_sra", "instr_srai"} -> Sar(x, k)
      [] f \in {"instr_sllw", "instr_slliw"}
            -> SignExtendBits(Shl(x, k), 32)
      [] f \in {"instr_srlw", "instr_srliw"}
            -> SignExtendBits(Shr(x \cap (0 .. 31), k), 32)
      [] f \in {"instr_sraw", "instr_sraiw"}
            -> Sar(SignExtendBits(x, 32), k)

\* C23: a shift executor given the count v leaves in rd what it leaves
\* when given v mod 64 (v mod 32 for the W forms): SLL by 64 leaves the
\* value of rs1
C23_ShiftsUseLowBits ==
    [][(/\ stage = "exec"
        /\ cpu.instr.exec_func \in RegShiftKinds \cup RegShiftWKinds
                                   \cup ImmShiftKinds \cup ImmShiftWKinds)
       => LET f == cpu.instr.exec_func
              low == IF f \in RegShiftKinds \cup ImmShiftKinds
                     THEN 0 .. 5 ELSE 0 .. 4
          IN  cpu'.xreg[cpu.instr.rd]
                = ShiftBy(f, cpu.xreg[cpu.instr.rs1],
                          BitsNat(ShiftCount(cpu) \cap low))]_vars

\* the same of every shift executor but SLL given a count above 63
C23_MaskedShiftsUseLowBits ==
    [][(/\ stage = "exec"
        /\ cpu.instr.exec_func \in RegShiftKinds \cup RegShiftWKinds
                                   \cup ImmShiftKinds \cup ImmShiftWKinds
        /\ ~(/\ cpu.instr.exec_func = "instr_sll"
              /\ cpu.xreg[cpu.instr.rs2] \cap (6 .. 63) # {}))
       => LET f == cpu.instr.exec_func
              low == IF f \in RegShiftKinds \cup ImmShiftKinds
                     THEN 0 .. 5 ELSE 0 .. 4
          IN  cpu'.xreg[cpu.instr.rd]
                = ShiftBy(f, cpu.xreg[cpu.instr.rs1],
                          BitsNat(ShiftCount(cpu) \cap low))]_vars


\* the operand a division executor takes from a register: the register,
\* or its low half read as a signed number
DivOperand(f, w) == IF f \in DivWKinds THEN SignExtendBits(w, 32) ELSE w

\* a word is within the integers of the model checker
Narrow(w) == w \cap (31 .. 63) \in {{}, 31 .. 63}

\* the quotient truncated toward 0 and the remainder of two integers
TruncDiv(a, b) ==
    LET q == (IF a < 0 THEN -a ELSE a) \div (IF b < 0 THEN -b ELSE b)
    IN  IF (a < 0) # (b < 0) THEN -q ELSE q

\* C24: the division executors raise nothing; by 0 the quotient is all
\* ones and the remainder the dividend; the most negative number by -1 has
\* the dividend for quotient and 0 for remainder; the W forms take the low
\* 32 bits of the operands and sign-extend the result
C24_DivisionIsTotal ==
    [][(stage = "exec" /\ cpu.instr.exec_func \in QuotientKinds \cup RemainderKinds)
       => LET f == cpu.instr.exec_func
              a == DivOperand(f, cpu.xreg[cpu.instr.rs1])
              b == DivOperand(f, cpu.xreg[cpu.instr.rs2])
              rd == cpu'.xreg[cpu.instr.rd]
              lowest == IF f \in DivWKinds THEN 31 .. 63 ELSE {63}
          IN  /\ cpu'.exc = cpu.exc
              /\ stage' = "bus"
              /\ b = {} => rd = (IF f \in QuotientKinds THEN WordBits ELSE a)
              /\ (f \in SignedDivKinds /\ a = lowest /\ b = WordBits)
                    => rd = (IF f \in QuotientKinds THEN a ELSE {})
              /\ f \in DivWKinds => rd = SignExtendBits(rd, 32)
              /\ (f \in SignedDivKinds /\ b # {} /\ Narrow(a) /\ Narrow(b)
                  /\ ~(a = lowest /\ b = WordBits) /\ a # 31 .. 63)
                    => LET q == TruncDiv(ToInt(a), ToInt(b)) IN
                       ToInt(rd) = IF f \in QuotientKinds THEN q
                                   ELSE ToInt(a) - q * ToInt(b)]_vars

\* DIV has divided the most negative number by -1, and left it in x3
C24_Witness ==
    /\ stage = "bus"
    /\ cpu.instr.exec_func = "instr_div"
    /\ cpu.xreg[1] = {63} /\ cpu.xreg[2] = WordBits
    /\ cpu.xreg[3] = {63}
    /\ cpu.exc.exception = NoException


\* the second operation of the pair whose first is f
Inverse(f, c) ==
    CASE f = "instr_add" -> instr_sub(c)
      [] f = "instr_sll" -> instr_srl(c)
      [] f = "instr_xor" -> instr_xor(c)

\* the hart c after the first operation of a pair, into rd from rs1 and
\* rs2, then the second, into x4 from rd and rs2: the value of x4
RoundTrip(before, c) ==
    Inverse(before.instr.exec_func,
            [c EXCEPT !.instr.rs1 = before.instr.rd, !.instr.rd = 4]).xreg[4]

\* the exec step of the first operation of a pair on x1 and x2
FirstOfPair ==
    /\ stage = "exec"
    /\ cpu.instr.exec_func \in {"instr_add", "instr_sll", "instr_xor"}
    /\ cpu.instr.rs1 = 1 /\ cpu.instr.rs2 = 2 /\ cpu.instr.rd = 3

\* C25: for add/sub, sll/srl and xor/xor the first operation with y and
\* then the second with the same y give back x, for every x and y
C25_PairsRoundTrip ==
    [][FirstOfPair => RoundTrip(cpu, cpu') = cpu.xreg[1]]_vars

\* C25 as the executors have it: add/sub and xor/xor give back x for every
\* x and y; sll/srl with a count y below 64 give x without its top y bits,
\* which is x when those bits were 0
C25_PairsRoundTripButLostBits ==
    [][FirstOfPair =>
         IF cpu.instr.exec_func = "instr_sll"
         THEN cpu.xreg[2] \cap (6 .. 63) = {}
                 => RoundTrip(cpu, cpu')
                      = cpu.xreg[1] \ ((64 - BitsNat(cpu.xreg[2])) .. 63)
         ELSE RoundTrip(cpu, cpu') = cpu.xreg[1]]_vars

\* an SLL by 1 has shifted bit 63 of x1 out, and the SRL that follows has
\* left x1 without it in x4
C25_Witness ==
    /\ stage = "bus"
    /\ cpu.instr.exec_func = "instr_srl"
    /\ cpu.xreg[1] = {0, 63} /\ cpu.xreg[2] = {0}
    /\ cpu.xreg[3] = {1}
    /\ cpu.xreg[4] = {0}


\* the place of a value in an order
Rank(order, v) == CHOOSE i \in DOMAIN order : order[i] = v

\* the condition of a branch on the values a and b
Taken(f, a, b) ==
    CASE f = "instr_beq" -> a = b
      [] f = "instr_bne" -> a # b
      [] f = "instr_blt" -> Rank(SignedOrder, a) < Rank(SignedOrder, b)
      [] f = "instr_bge" -> Rank(SignedOrder, a) >= Rank(SignedOrder, b)
      [] f = "instr_bltu" -> Rank(UnsignedOrder, a) < Rank(UnsignedOrder, b)
      [] f = "instr_bgeu" -> Rank(UnsignedOrder, a) >= Rank(UnsignedOrder, b)
      [] f = "instr_cbeqz" -> a = {}
      [] f = "instr_cbnez" -> a # {}

\* the offset a branch word encodes
OffsetOf(w) ==
    IF w.kind \in BranchKinds THEN w.imm
    ELSE CHOOSE o \in CBranchOffsets :
            \E funct3 \in {6, 7} : CBHalfword(funct3, w.rs1 - 8, o) = w.imm

\* C26: a branch that started at PC_start ends its tick with
\* PC = PC_start + imm when its condition holds, under the signed or the
\* unsigned comparison of that branch, and PC = PC_start + len otherwise
C26_BranchTarget ==
    [][(stage = "exec" /\ cpu.instr.exec_func \in BranchKinds \cup CBranchKinds)
       => LET w == cpu.instr.instr IN
          /\ stage' = "bus"
          /\ cpu'.pc = instr_addr
                + (IF Taken(cpu.instr.exec_func, cpu.xreg[w.rs1], cpu.xreg[w.rs2])
                   THEN OffsetOf(w) ELSE w.len)]_vars

\* BLT of -1 and 1 has gone back four bytes from the start of the ROM
C26_Witness ==
    /\ stage = "bus"
    /\ cpu.instr.exec_func = "instr_blt"
    /\ cpu.xreg[1] = WordBits /\ cpu.xreg[2] = {0}
    /\ cpu.instr.imm = -4
    /\ cpu.pc = BOOT_ROM_BASE - 4


\* v with bit 0 clear, for v >= 0
Even(v) == v - (v % 2)

\* the exec step of JALR
JalrStep == stage = "exec" /\ cpu.instr.exec_func = "instr_jalr"

\* the exec step of C.JR
CjrStep ==
    /\ stage = "exec" /\ cpu.instr.exec_func = "instr_cjr_cmv"
    /\ cpu.instr.rs2 = 0 /\ cpu.instr.rs1 # 0

\* the exec step of C.JALR
CjalrStep ==
    /\ stage = "exec" /\ cpu.instr.exec_func = "instr_cebreak_cjalr_cadd"
    /\ cpu.instr.rs2 = 0 /\ cpu.instr.rs1 # 0

\* what JALR rd, imm(rs1) of the given length does in a step
JalrSemantics(rd, rs1, imm, len) ==
    /\ cpu'.pc = Even(ToInt(cpu.xreg[rs1]) + imm)
    /\ rd # 0 => cpu'.xreg[rd] = ToBits(instr_addr + len)

\* C27: a register-indirect jump clears bit 0 of its target: JALR goes to
\* (rs1 + imm) & ~1, C.JR and C.JALR do what JALR x0, 0(rs1) and
\* JALR x1, 0(rs1) do, and the link register holds the address of the
\* instruction after the jump, also when rd = rs1
C27_JumpsClearBit0 ==
    [][/\ JalrStep => JalrSemantics(cpu.instr.rd, cpu.instr.rs1, cpu.instr.imm, 4)
       /\ CjrStep => JalrSemantics(0, cpu.instr.rs1, 0, 2)
       /\ CjalrStep => JalrSemantics(1, cpu.instr.rs1, 0, 2)]_vars

\* what holds of the code: JALR clears bit 0, the compressed jumps go to
\* the value of rs1 as it is; the link is the following address in all
C27_OnlyJalrClearsBit0 ==
    [][/\ JalrStep => JalrSemantics(cpu.instr.rd, cpu.instr.rs1, cpu.instr.imm, 4)
       /\ CjrStep => cpu'.pc = ToInt(cpu.xreg[cpu.instr.rs1])
       /\ CjalrStep => /\ cpu'.pc = ToInt(cpu.xreg[cpu.instr.rs1])
                       /\ cpu'.xreg[1] = ToBits(instr_addr + 2)]_vars


\* C28: exception entry never lowers the privilege mode: the mode after
\* handle_exception is at least the mode the faulting instruction ran in,
\* whatever the exception and the delegation registers
C28_EntryNeverLowersMode ==
    [][stage = "trap" => cpu'.mode >= cpu.mode]_vars

\* what holds of the code: the mode after the entry is the one the
\* delegation registers name, whatever the mode before
C28_EntryFollowsDelegationAlone ==
    [][stage = "trap"
        => cpu'.mode = IF cpu.exc.exception \in cpu.csr[MEDELEG]
                       THEN (IF cpu.exc.exception \in cpu.csr[SEDELEG]
                             THEN USER ELSE SUPERVISOR)
                       ELSE MACHINE]_vars


\* C29: the trap engine is total: handle_exception returns an outcome and
\* the interrupt poll returns to the driver, whatever the exception, the
\* pending cause, the mode and the delegation registers; no tick ends the
\* process
C29_TrapEngineIsTotal ==
    /\ stage # "exited"
    /\ stage = "trap"
        => LET r == handle_exception(cpu, instr_addr) IN
           ~r.exited /\ r.trap \in {Trap_Fatal, Trap_Requested, Trap_Invisible}
    /\ stage = "irq" => ~handle_interrupt(cpu).exited

\* what holds of the code: the process is ended only where a trap is routed
\* to user mode, by both delegation bits of its cause
C29_TotalUnlessRoutedToUser ==
    [][/\ (stage = "trap" /\ stage' = "exited")
          => cpu.exc.exception \in cpu.csr[MEDELEG] \cap cpu.csr[SEDELEG]
       /\ (stage = "irq" /\ stage' = "exited")
          => /\ cpu.mode = USER
             /\ \E k \in DOMAIN irq_order :
                   /\ irq_order[k].bit \subseteq cpu.csr[MIP] \cap cpu.csr[MIE]
                   /\ irq_order[k].bit \subseteq cpu.csr[MIDELEG] \cap cpu.csr[SIDELEG]]_vars


\* the hart entered a handler in mode T, and T's return instruction, run
\* next, gives back the mode p, the value of T's IE bit before the entry
\* and the address a
ReturnRestores(entered, p, a) ==
    LET T == entered.mode
        back == IF T = MACHINE THEN instr_mret(entered) ELSE instr_sret(entered)
        ie == IF T = MACHINE THEN 3 ELSE 1
    IN  /\ back.mode = p
        /\ ie \in back.csr[MSTATUS] <=> ie \in cpu.csr[MSTATUS]
        /\ back.pc = a

\* the entry of the exception in the slot, or of the interrupt the poll
\* takes, at an even address, from a mode among the given ones, followed by
\* the return of the mode entered, is a round trip
RoundTripFrom(modes) ==
    /\ (stage = "trap" /\ instr_addr % 2 = 0 /\ cpu.mode \in modes)
        => LET r == handle_exception(cpu, instr_addr) IN
           ~r.exited => ReturnRestores(r.cpu, cpu.mode, instr_addr)
    /\ (stage = "irq" /\ cpu.pc % 2 = 0 /\ cpu.mode \in modes)
        => LET r == handle_interrupt(cpu) IN
           r.took # NoInterrupt => ReturnRestores(r.cpu, cpu.mode, cpu.pc)

\* C30: a trap entry into T, supervisor or machine, at an even address a
\* from mode p with T's IE bit e, followed at once by T's return (MRET for
\* machine, SRET for supervisor), restores mode p, IE bit e and PC = a, for
\* every p from which T is entered
C30_TrapAndReturnRoundTrip == RoundTripFrom({USER, SUPERVISOR, MACHINE})

\* what holds of the code: the round trip of every entry from user and
\* supervisor mode, and of the entries into machine mode from machine mode
C30_RoundTripUnlessLowered ==
    /\ RoundTripFrom({USER, SUPERVISOR})
    /\ (stage = "trap" /\ cpu.exc.exception \notin cpu.csr[MEDELEG])
        => RoundTripFrom({MACHINE})
    /\ stage = "irq" => RoundTripFrom({MACHINE})

====
